---- MODULE Spec2Model ----
(***************************************************************************)
(* A model of the voxel world of 3d-sandbox: Chunk (dense block grid,      *)
(* dirty flag, mesh), World (chunk map, lazy generation with trees,        *)
(* border dirtiness).                                                      *)
(*                                                                         *)
(* A chunk's Uint8Array of CHUNK_SIZE*CHUNK_HEIGHT*CHUNK_SIZE zero-filled  *)
(* bytes is represented by the function of its non-zero entries: an index  *)
(* outside the function's domain reads 0 (AIR), writing 0 removes the      *)
(* index.  Two arrays are equal iff their representations are.             *)
(*                                                                         *)
(* JavaScript runs each handler to completion on one thread; a handler     *)
(* that generates terrain calls back into World.setBlock (generateTree),   *)
(* which may create and generate further chunks.  That recursion is kept   *)
(* as an explicit call stack: while the stack is non-empty only the frame  *)
(* on top can step, and no new top-level call starts.                      *)
(***************************************************************************)
EXTENDS Integers, Sequences, FiniteSets, TLC

VARIABLES
    seed,      \* World.seed
    chunks,    \* World.chunks: chunk key -> [blocks, dirty, mesh]
    stack,     \* frames of the calls in progress, top of stack last
    call,      \* the top-level call in progress or last completed, and its result
    pre,       \* World.chunks as it was when that call started
    genCount,  \* chunk key -> runs of generateChunkTerrain since the key became resident
    halfSeen,  \* a World.setBlock reached a chunk of another coordinate whose generation had not finished
    ops,       \* mutating top-level calls made so far
    meshes,    \* every THREE.Mesh made so far: <<chunk key, n>> -> [faces, inScene, released]
    treeLog,   \* <<seed, x, z>> -> trunk height of the tree the latest generation of column (x, z) placed, 0 for none
    firstGen,  \* <<seed, chunk key>> -> the block array the chunk had when its first generation returned
    player,    \* the Player bound to the world: position, velocity.y, flags, keys, view, camera
    game,      \* Game: isRunning, the identities of its world and player, the stored save, continueGame calls waiting
    earlier,   \* the Players made before the current one, whose document listeners stay registered
    edits      \* cell -> block of the player's edits to the current world, and those the stored save was written with

vars == <<seed, chunks, stack, call, pre, genCount, halfSeen, ops, meshes, treeLog, firstGen, player, game,
          earlier, edits>>

-----------------------------------------------------------------------------
(* Program constants (src/src/config.js) *)

AIR == 0
GRASS == 1
DIRT == 2
STONE == 3
WOOD == 4
LEAVES == 5
BlockTags == {AIR, GRASS, DIRT, STONE, WOOD, LEAVES}

CHUNK_SIZE == 16
CHUNK_HEIGHT == 64
RENDER_DISTANCE == 4

\* PLAYER_CONFIG: speed, jumpForce, gravity, reach, flySpeed
PLAYER_speed == 5
PLAYER_jumpForce == 8
PLAYER_gravity == 20
PLAYER_reach == 5
PLAYER_flySpeed == 10

\* new Uint8Array(CHUNK_SIZE * CHUNK_HEIGHT * CHUNK_SIZE).length
BlocksLength == CHUNK_SIZE * CHUNK_HEIGHT * CHUNK_SIZE

-----------------------------------------------------------------------------
(* Bounds of the model *)

MaxUpdates == 3    \* top-level calls per behaviour up to which updateChunks is called
MaxOps == 2        \* mutating top-level calls per behaviour

MaxTicks == 3      \* top-level calls per behaviour up to which the player is updated or edits a block
MaxWorlds == 3     \* World objects per behaviour up to which a game is started or continued
TickWorlds == MaxWorlds - 1    \* World objects up to which a game is started or continued between frames
MaxFrames == 80    \* top-level calls per behaviour up to which an animation frame updates the game

Seeds == {42}

\* Date.now() when a new game is started: with 42 the terrain of world column
\* (0, 0) has height 0, with 307 it has height 20
ClockSeeds == {42, 307}

\* World columns <<x, z>> at which Math.random() < treeChance may hold:
\* the easternmost column 8 of chunk (0,0) and the westernmost column 8 of chunk (1,0).
TreeSites == { <<15, 8>>, <<16, 8>> }

\* World cells the top-level World.setBlock calls draw from.
WorldCells ==
    { <<7, 5, 3>>,      \* chunk (0,0), interior
      <<15, 5, 0>>,     \* chunk (0,0), local x = 15 and local z = 0
      <<16, 63, 15>>,   \* chunk (1,0), local x = 0 and local z = 15, top layer
      <<15, 5, -1>>,    \* chunk (0,-1), local x = 15 and local z = 15
      <<8, -1, 8>>,     \* below the world
      <<8, 64, 8>> }    \* above the world

\* World cells the top-level World.getBlock calls draw from.
WorldReadCells ==
    { <<7, 5, 3>>, <<15, 5, -1>>, <<-17, 5, 40>>, <<7, 64, 3>>, <<7, -1, 3>> }

\* Local coordinates outside the chunk, one per bound.  Those with y inside
\* 0..63 have the array index x + 16 z + 256 y of a cell of column (7, 3),
\* which the terrain of chunk (0,0) fills up to level 20.
OutsideCells ==
    { <<23, 5, 2>>,     \* x >= 16, index of (7, 5, 3)
      <<-9, 5, 4>>,     \* x < 0,   index of (7, 5, 3)
      <<7, 4, 19>>,     \* z >= 16, index of (7, 5, 3)
      <<7, 6, -13>>,    \* z < 0,   index of (7, 5, 3)
      <<7, 64, 3>>,     \* y >= 64, index past the end of the array
      <<7, -1, 3>> }    \* y < 0,   negative index

\* Local coordinates the top-level Chunk.setBlock calls draw from.
LocalCells == { <<7, 5, 3>>, <<15, 63, 15>> } \cup OutsideCells

\* Local coordinates the top-level Chunk.getBlock calls draw from.
LocalReadCells == { <<7, 5, 3>> } \cup OutsideCells

EditTags == {AIR, LEAVES}

\* Chunk coordinates the top-level World.getOrCreateChunk calls draw from.
ChunkCoords == { <<0, 0>>, <<0, -1>> }

\* Chunks the top-level Chunk.getBlock / Chunk.setBlock calls are made on.
DirectChunks == { <<0, 0>> }

\* A persisted chunk: hasBlocks says whether the blocks field is present, len is
\* the length of the blocks array and blocks its non-zero entries
SavedChunk(cx, cz, len, blocks) ==
    [chunkX |-> cx, chunkZ |-> cz, hasBlocks |-> TRUE, len |-> len, blocks |-> blocks]

\* The array index of local cell o
IndexOf(o) == o[1] + o[3] * CHUNK_SIZE + o[2] * CHUNK_SIZE * CHUNK_SIZE

\* A 3 x 3 x 3 cube of STONE over world x 14..16, y 4..6, z 6..8: the part in
\* chunk (0,0) and the part in chunk (1,0)
CubeWest == [i \in { IndexOf(<<x, y, z>>) : x \in 14 .. 15, y \in 4 .. 6, z \in 6 .. 8 } |-> STONE]
CubeEast == [i \in { IndexOf(<<0, y, z>>) : y \in 4 .. 6, z \in 6 .. 8 } |-> STONE]

\* An arena in chunk (0,0): a floor of STONE at level 0 over x, z in 4 .. 11 and
\* a wall of STONE two cells high at x = 10, z = 8
Arena ==
    [i \in { IndexOf(<<x, 0, z>>) : x \in 4 .. 11, z \in 4 .. 11 }
            \cup { IndexOf(<<10, 1, 8>>), IndexOf(<<10, 2, 8>>) } |-> STONE]

\* Persisted payloads World.deserialize is called with; hasChunks says whether
\* the chunks field is present
Payloads ==
    << \* one chunk holding a single block of LEAVES at (7, 5, 3)
       [seed |-> 7, hasChunks |-> TRUE,
        chunks |-> << SavedChunk(0, 0, BlocksLength, IndexOf(<<7, 5, 3>>) :> LEAVES) >>],
       \* the cube, lying across the border of chunks (0,0) and (1,0)
       [seed |-> 7, hasChunks |-> TRUE,
        chunks |-> << SavedChunk(0, 0, BlocksLength, CubeWest), SavedChunk(1, 0, BlocksLength, CubeEast) >>],
       \* a block array of length 3
       [seed |-> 7, hasChunks |-> TRUE,
        chunks |-> << SavedChunk(0, 0, 3, (0 :> 1) @@ (1 :> 2) @@ (2 :> 3)) >>],
       \* a chunk without a block array
       [seed |-> 7, hasChunks |-> TRUE,
        chunks |-> << [chunkX |-> 0, chunkZ |-> 0, hasBlocks |-> FALSE, len |-> 0, blocks |-> <<>>] >>],
       \* no chunk list
       [seed |-> 7, hasChunks |-> FALSE, chunks |-> <<>>],
       \* the arena
       [seed |-> 7, hasChunks |-> TRUE,
        chunks |-> << SavedChunk(0, 0, BlocksLength, Arena) >>] >>

\* 0 stands for the payload World.serialize() returns on the world as it is
PayloadChoices == 0 .. Len(Payloads)

\* The save the player's world is loaded from: the arena
ArenaChoices == {Len(Payloads)}

\* Player positions <<x, z>> World.updateChunks is called with: in chunk (-4,0),
\* whose window ends at chunk column 0, and in chunk (-5,0), whose window ends
\* at chunk column -1
PlayerPositions == { <<-56, 8>>, <<-72, 8>> }

\* Player positions whose windows hold both chunk (0,0) and chunk (1,0): in
\* chunk (0,0) and in chunk (1,0)
NearPositions == { <<8, 8>>, <<24, 8>> }

\* The payloads and trunk heights of the behaviours in which the player moves
UpdatePayloadChoices == {0, 1}
UpdateTrunkHeights == {4}

\* The payloads of the behaviours between saves, edits and mesh rebuilds: the
\* world's own save and the two saves whose block arrays have full length
LifePayloadChoices == 0 .. 2

LifeCells == { <<7, 5, 3>> }
LifeCoords == { <<0, 0>> }

-----------------------------------------------------------------------------
(* Chunk (src/src/world/Chunk.js) *)

\* new Chunk(chunkX, chunkZ, world)
\* this.mesh = null; a chunk's n-th mesh is held as n >= 1
NoMesh == 0

NewChunk == [blocks |-> <<>>, len |-> BlocksLength, dirty |-> TRUE, mesh |-> NoMesh]

GetBlockIndex(x, y, z) == x + z * CHUNK_SIZE + y * CHUNK_SIZE * CHUNK_SIZE

\* The bounds test with the upper bound on x left out
OutOfBounds_NoUpperX(x, y, z) ==
    x < 0 \/ y < 0 \/ y >= CHUNK_HEIGHT \/ z < 0 \/ z >= CHUNK_SIZE

OutOfBounds(x, y, z) ==
    x < 0 \/ x >= CHUNK_SIZE \/ y < 0 \/ y >= CHUNK_HEIGHT \/ z < 0 \/ z >= CHUNK_SIZE

\* What reading a typed array at an index outside 0 .. length-1 yields
Undefined == -1

\* this.blocks[i] of chunk c
ReadBlocks(c, i) ==
    IF i < 0 \/ i >= c.len THEN Undefined
    ELSE IF i \in DOMAIN c.blocks THEN c.blocks[i] ELSE AIR

\* this.blocks[i] = t on chunk c: the array after the store; a store outside
\* 0 .. length-1 is ignored
WriteBlocks(c, i, t) ==
    IF i < 0 \/ i >= c.len THEN c.blocks
    ELSE IF t = AIR
    THEN [j \in DOMAIN c.blocks \ {i} |-> c.blocks[j]]
    ELSE [j \in DOMAIN c.blocks \cup {i} |-> IF j = i THEN t ELSE c.blocks[j]]

ChunkGetBlock(c, x, y, z) ==
    IF OutOfBounds(x, y, z) THEN AIR
    ELSE ReadBlocks(c, GetBlockIndex(x, y, z))

\* setBlock storing at the index of (z, y, x)
ChunkSetBlock_SwapXZ(c, x, y, z, t) ==
    IF OutOfBounds(x, y, z) THEN c
    ELSE [c EXCEPT !.blocks = WriteBlocks(c, GetBlockIndex(z, y, x), t),
                   !.dirty = TRUE]

\* setBlock raising the dirty flag before its bounds test
ChunkSetBlock_DirtyFirst(c, x, y, z, t) ==
    IF OutOfBounds(x, y, z) THEN [c EXCEPT !.dirty = TRUE]
    ELSE [c EXCEPT !.blocks = WriteBlocks(c, GetBlockIndex(x, y, z), t),
                   !.dirty = TRUE]

\* setBlock storing the block without raising the dirty flag
ChunkSetBlock_NoDirty(c, x, y, z, t) ==
    IF OutOfBounds(x, y, z) THEN c
    ELSE [c EXCEPT !.blocks = WriteBlocks(c, GetBlockIndex(x, y, z), t)]

ChunkSetBlock(c, x, y, z, t) ==
    IF OutOfBounds(x, y, z) THEN c
    ELSE [c EXCEPT !.blocks = WriteBlocks(c, GetBlockIndex(x, y, z), t),
                   !.dirty = TRUE]

-----------------------------------------------------------------------------
(* World (src/unnamed/part_000) *)

GetChunkKey(cx, cz) == <<cx, cz>>

\* Division that truncates toward zero in place of Math.floor
ChunkOf_Truncating(v) ==
    IF v >= 0 THEN v \div CHUNK_SIZE ELSE -((-v) \div CHUNK_SIZE)

\* Math.floor(v / CHUNK_SIZE) on an integer v
ChunkOf(v) == v \div CHUNK_SIZE

\* v - chunk * CHUNK_SIZE
LocalOf(v) == v - ChunkOf(v) * CHUNK_SIZE

KeyOf(x, z) == GetChunkKey(ChunkOf(x), ChunkOf(z))

\* this.getChunk(cx, cz) is undefined
Absent(ch, key) == key \notin DOMAIN ch

\* A lookup that puts a new chunk in the map when the key is absent
LookupChunk_Creating(ch, key) ==
    [k \in DOMAIN ch \cup {key} |->
        IF k \in DOMAIN ch THEN ch[k] ELSE NewChunk]

\* The chunk map after World.getBlock has looked up chunk key with getChunk
LookupChunk(ch, key) == ch

\* The height test with the upper bound left out
YOutOfWorld_NoUpper(y) == y < 0

YOutOfWorld(y) == y < 0 \/ y >= CHUNK_HEIGHT

WorldGetBlock(ch, x, y, z) ==
    IF YOutOfWorld(y) THEN AIR
    ELSE IF Absent(ch, KeyOf(x, z)) THEN AIR
    ELSE ChunkGetBlock(ch[KeyOf(x, z)], LocalOf(x), y, LocalOf(z))

\* if (adjacentChunk) adjacentChunk.dirty = true
MarkDirty(ch, key) ==
    IF Absent(ch, key) THEN ch ELSE [ch EXCEPT ![key].dirty = TRUE]

\* The neighbours World.setBlock looks up after a write at local (lx, lz) of chunk (cx, cz)
BorderKeys(cx, cz, lx, lz) ==
    (IF lx = 0 THEN {GetChunkKey(cx - 1, cz)} ELSE {})
    \cup (IF lx = CHUNK_SIZE - 1 THEN {GetChunkKey(cx + 1, cz)} ELSE {})
    \cup (IF lz = 0 THEN {GetChunkKey(cx, cz - 1)} ELSE {})
    \cup (IF lz = CHUNK_SIZE - 1 THEN {GetChunkKey(cx, cz + 1)} ELSE {})

\* World.setBlock from chunk.setBlock on, once the owning chunk is in the map
SetBlockResident(ch, x, y, z, t) ==
    LET key == KeyOf(x, z)
        nb  == BorderKeys(ChunkOf(x), ChunkOf(z), LocalOf(x), LocalOf(z))
    IN  [k \in DOMAIN ch |->
            IF k = key THEN ChunkSetBlock(ch[k], LocalOf(x), y, LocalOf(z), t)
            ELSE IF k \in nb THEN MarkDirty(ch, k)[k]
            ELSE ch[k]]

\* this.chunks.set(key, new Chunk(...))
CreateChunk(ch, key) ==
    [k \in DOMAIN ch \cup {key} |-> IF k = key THEN NewChunk ELSE ch[k]]

\* getOrCreateChunk creating and generating on every call
NeedsCreate_Always(ch, key) == TRUE

\* getOrCreateChunk: if (!chunk)
NeedsCreate(ch, key) == Absent(ch, key)

-----------------------------------------------------------------------------
(* Terrain (src/unnamed/part_000, generateChunkTerrain / generateTree) *)

Max(a, b) == IF a >= b THEN a ELSE b
Min(a, b) == IF a <= b THEN a ELSE b

\* Math.floor(baseHeight + noiseValue * heightMultiplier) for world column
\* (wx, wz): a fixed function of the seed and the column.  Most columns are
\* at level 0; a few rise to 1, 3, 6 or 20 and a few fall below 0.
NoiseHeight(s, wx, wz) ==
    LET r == (wx * 37 + wz * 2 + s) % 307
    IN  CASE r = 0 -> 20
          [] r = 1 -> 6
          [] r = 2 -> 3
          [] r = 3 -> 1
          [] r = 4 -> -3
          [] OTHER -> 0

\* const height = Math.max(0, Math.floor(...))
Height(s, wx, wz) == Max(0, NoiseHeight(s, wx, wz))

\* A fill with four cells of Dirt below the Grass
ColumnBlock_FourDirt(y, height) ==
    IF y = height - 1 THEN GRASS
    ELSE IF y >= height - 5 THEN DIRT
    ELSE STONE

\* A fill with two cells of Dirt below the Grass
ColumnBlock_TwoDirt(y, height) ==
    IF y = height - 1 THEN GRASS
    ELSE IF y >= height - 3 THEN DIRT
    ELSE STONE

\* The block the fill loop stores at level y of a column of the given height
ColumnBlock(y, height) ==
    IF y = height - 1 THEN GRASS
    ELSE IF y >= height - 4 THEN DIRT
    ELSE STONE

\* Columns are visited x outer, z inner: col = x * CHUNK_SIZE + z
ColX(col) == col \div CHUNK_SIZE
ColZ(col) == col % CHUNK_SIZE
LastCol == CHUNK_SIZE * CHUNK_SIZE - 1

ColumnWorldX(key, col) == key[1] * CHUNK_SIZE + ColX(col)
ColumnWorldZ(key, col) == key[2] * CHUNK_SIZE + ColZ(col)
ColumnHeight(s, key, col) == Height(s, ColumnWorldX(key, col), ColumnWorldZ(key, col))

\* The fill loops of generateChunkTerrain over columns from..to of chunk c
FillColumns(c, s, key, from, to) ==
    LET cols == { col \in from .. to : ColumnHeight(s, key, col) > 0 } \cup {}
        idx == UNION { { GetBlockIndex(ColX(col), y, ColZ(col)) :
                           y \in 0 .. (Min(ColumnHeight(s, key, col), CHUNK_HEIGHT) - 1) } :
                       col \in cols } \cup {}
        colOf(i) == (i % CHUNK_SIZE) * CHUNK_SIZE + ((i \div CHUNK_SIZE) % CHUNK_SIZE)
        yOf(i)   == i \div (CHUNK_SIZE * CHUNK_SIZE)
    IN  IF idx = {} THEN c
        ELSE [c EXCEPT
                !.blocks = [i \in DOMAIN c.blocks \cup idx |->
                              IF i \in idx
                              THEN ColumnBlock(yOf(i), ColumnHeight(s, key, colOf(i)))
                              ELSE c.blocks[i]],
                !.dirty = TRUE]

\* 4 + Math.floor(Math.random() * 2)
TrunkHeights == {4, 5}

\* The cells generateTree(x, y, z) writes, in the order it writes them
LeafOffsets ==
    LET all == [n \in 1 .. 100 |->
                  <<(((n - 1) % 25) \div 5) - 2, (n - 1) \div 25, ((n - 1) % 5) - 2>>]
        Keep(o) == /\ ~(o[1] = 0 /\ o[3] = 0 /\ o[2] < 3)
                   \* Math.sqrt(dx*dx + dz*dz + dy*dy*0.5) < 2.5
                   /\ 2 * o[1] * o[1] + 2 * o[3] * o[3] + o[2] * o[2] < 13
    IN  SelectSeq(all, Keep)

TreeWrites(x, y, z, th) ==
    [i \in 1 .. th |-> <<x, y + i - 1, z, WOOD>>]
    \o [n \in 1 .. Len(LeafOffsets) |->
          <<x + LeafOffsets[n][1], y + th - 1 + LeafOffsets[n][2], z + LeafOffsets[n][3], LEAVES>>]

\* The effect of the World.setBlock calls ws[from], ..., ws[to] made in that order,
\* each on a cell whose chunk is resident or whose y is out of the world: a cell
\* holds what the last write to it stored (a store past the end of the array is
\* ignored), a chunk is dirty if it was, if a cell of it was written, or if it is a
\* resident neighbour across a border a write lies on.
ApplyWrites(ch, ws, from, to) ==
    LET live == { i \in from .. to : ~YOutOfWorld(ws[i][2]) }
        keyOf(i) == KeyOf(ws[i][1], ws[i][3])
        idxOf(i) == GetBlockIndex(LocalOf(ws[i][1]), ws[i][2], LocalOf(ws[i][3]))
        marked == UNION { BorderKeys(ChunkOf(ws[i][1]), ChunkOf(ws[i][3]),
                                     LocalOf(ws[i][1]), LocalOf(ws[i][3])) : i \in live }
    IN  [key \in DOMAIN ch |->
           LET mine == { i \in live : keyOf(i) = key }
               wr == { idxOf(i) : i \in { j \in mine : idxOf(j) < ch[key].len } }
               last(idx) == LET at == { i \in mine : idxOf(i) = idx }
                            IN  ws[CHOOSE i \in at : \A i2 \in at : i2 <= i][4]
               old == ch[key].blocks
           IN  [ch[key] EXCEPT
                  !.blocks = [idx \in { i \in DOMAIN old \cup wr : i \in wr => last(i) # AIR } |->
                                IF idx \in wr THEN last(idx) ELSE old[idx]],
                  !.dirty = (@ \/ mine # {} \/ key \in marked)]]

\* The tree decisions of a run of the fill loop over columns from .. c of chunk
\* key: Math.random() < treeChance failed at the columns before c and held at
\* column c, where a tree of trunk height th was placed (c past the last
\* column: it held nowhere).  Kept for the columns of TreeSites.
LogTrees(log, s, key, from, c, th) ==
    LET colOf(site) == LocalOf(site[1]) * CHUNK_SIZE + LocalOf(site[2])
        seen == { site \in TreeSites : KeyOf(site[1], site[2]) = key /\ colOf(site) \in from .. c }
        logged == { <<s, site[1], site[2]>> : site \in seen }
    IN  [e \in DOMAIN log \cup logged |->
            IF e \in logged
            THEN (IF colOf(<<e[2], e[3]>>) = c THEN th ELSE 0)
            ELSE log[e]]

\* The block arrays of the chunks keys of ch, whose generation with seed s has
\* just returned, kept for those generated with that seed for the first time
RecordFirst(fg, s, keys, ch) ==
    [e \in DOMAIN fg \cup { <<s, k>> : k \in keys } |->
        IF e \in DOMAIN fg THEN fg[e] ELSE ch[e[2]].blocks]

\* The write of ws that makes getOrCreateChunk create a chunk
WriteCreates(ch, w) == ~YOutOfWorld(w[2]) /\ NeedsCreate(ch, KeyOf(w[1], w[3]))

-----------------------------------------------------------------------------
(* Mesh (src/src/world/Chunk.js, shouldRenderFace / generateMesh) *)

\* Top, Bottom, Front, Back, Right, Left
FaceDirs == { <<0, 1, 0>>, <<0, -1, 0>>, <<0, 0, 1>>, <<0, 0, -1>>, <<1, 0, 0>>, <<-1, 0, 0>> }

\* A shouldRenderFace that takes every cell beyond the x/z borders for Air
ShouldRenderFace_BorderOpen(ch, key, x, y, z, d) ==
    LET nx == x + d[1]
        ny == y + d[2]
        nz == z + d[3]
    IN  IF nx < 0 \/ nx >= CHUNK_SIZE \/ nz < 0 \/ nz >= CHUNK_SIZE
        THEN TRUE
        ELSE ChunkGetBlock(ch[key], nx, ny, nz) = AIR

ShouldRenderFace(ch, key, x, y, z, d) ==
    LET nx == x + d[1]
        ny == y + d[2]
        nz == z + d[3]
    IN  IF nx < 0 \/ nx >= CHUNK_SIZE \/ nz < 0 \/ nz >= CHUNK_SIZE
        THEN WorldGetBlock(ch, key[1] * CHUNK_SIZE + nx, ny, key[2] * CHUNK_SIZE + nz) = AIR
        ELSE ChunkGetBlock(ch[key], nx, ny, nz) = AIR

\* The quads generateMesh emits: <<local x, y, local z, direction>>
MeshFaces(ch, key) ==
    UNION { LET x == i % CHUNK_SIZE
                z == (i \div CHUNK_SIZE) % CHUNK_SIZE
                y == i \div (CHUNK_SIZE * CHUNK_SIZE)
            IN  { <<x, y, z, d>> : d \in { e \in FaceDirs : ShouldRenderFace(ch, key, x, y, z, e) } } :
            i \in DOMAIN ch[key].blocks }

\* face.vertices: the corners of the quad of direction d, as offsets from the block
FaceVertices(d) ==
    CASE d = <<0, 1, 0>>  -> << <<0, 1, 0>>, <<1, 1, 0>>, <<1, 1, 1>>, <<0, 1, 1>> >>
      [] d = <<0, -1, 0>> -> << <<0, 0, 1>>, <<1, 0, 1>>, <<1, 0, 0>>, <<0, 0, 0>> >>
      [] d = <<0, 0, 1>>  -> << <<0, 0, 1>>, <<0, 1, 1>>, <<1, 1, 1>>, <<1, 0, 1>> >>
      [] d = <<0, 0, -1>> -> << <<1, 0, 0>>, <<1, 1, 0>>, <<0, 1, 0>>, <<0, 0, 0>> >>
      [] d = <<1, 0, 0>>  -> << <<1, 0, 1>>, <<1, 1, 1>>, <<1, 1, 0>>, <<1, 0, 0>> >>
      [] d = <<-1, 0, 0>> -> << <<0, 0, 0>>, <<0, 1, 0>>, <<0, 1, 1>>, <<0, 0, 1>> >>

\* The vertices pushed for quad f of chunk key: world x, y, world z of each corner
QuadVertices(key, f) ==
    [n \in 1 .. Len(FaceVertices(f[4])) |->
        << key[1] * CHUNK_SIZE + f[1] + FaceVertices(f[4])[n][1],
           f[2] + FaceVertices(f[4])[n][2],
           key[2] * CHUNK_SIZE + f[3] + FaceVertices(f[4])[n][3] >>]

\* vertexCount when the quad after q earlier quads is emitted: every quad adds
\* the number of its vertices
VertexCountAt(q) == 4 * q

\* indices.push(...) for a quad emitted at vertexCount vc: two triangles
QuadIndices(vc) == << vc, vc + 1, vc + 2, vc, vc + 2, vc + 3 >>

\* Meshes made so far for chunk key
MeshesMade(ms, key) == Cardinality({ m \in DOMAIN ms : m[1] = key })

\* scene.remove(mesh); mesh.geometry.dispose(); mesh.material.dispose()
ReleaseMesh(ms, id) == [ms EXCEPT ![id].inScene = FALSE, ![id].released = @ + 1]

\* if (this.mesh) { remove and dispose it }: this.mesh keeps pointing at it
ReleaseCurrent(ch, ms, key) ==
    IF ch[key].mesh # NoMesh THEN ReleaseMesh(ms, <<key, ch[key].mesh>>) ELSE ms

\* new THREE.Mesh(geometry, material); scene.add(mesh)
InstallMesh(ms, id, faces) ==
    [m \in DOMAIN ms \cup {id} |->
        IF m = id THEN [faces |-> faces, inScene |-> TRUE, released |-> 0] ELSE ms[m]]

\* Whether generateMesh throws on chunk c: a cell of the 16 x 64 x 16 loops
\* reads undefined past the end of the array, or a block type without an entry
\* in BlockProperties, and props.topColor is read on undefined
MeshThrows(c) ==
    \/ c.len < BlocksLength
    \/ \E i \in DOMAIN c.blocks : i < BlocksLength /\ c.blocks[i] \notin BlockTags

\* A generateMesh that returns early on an empty vertex list without clearing
\* the dirty flag
GenerateMesh_DirtyOnEmpty(ch, ms, key) ==
    IF ~ch[key].dirty THEN [chunks |-> ch, meshes |-> ms, threw |-> FALSE]
    ELSE LET ms1 == ReleaseCurrent(ch, ms, key)
             faces == MeshFaces(ch, key)
             n == MeshesMade(ms, key) + 1
         IN  IF MeshThrows(ch[key])
             THEN [chunks |-> ch, meshes |-> ms1, threw |-> TRUE]
             ELSE IF faces = {}
             THEN [chunks |-> ch, meshes |-> ms1, threw |-> FALSE]
             ELSE [chunks |-> [ch EXCEPT ![key].mesh = n, ![key].dirty = FALSE],
                   meshes |-> InstallMesh(ms1, <<key, n>>, faces), threw |-> FALSE]

\* A generateMesh without the early return on a clean chunk
GenerateMesh_NoGuard(ch, ms, key) ==
    LET ms1 == ReleaseCurrent(ch, ms, key)
        faces == MeshFaces(ch, key)
        n == MeshesMade(ms, key) + 1
    IN  IF MeshThrows(ch[key])
        THEN [chunks |-> ch, meshes |-> ms1, threw |-> TRUE]
        ELSE IF faces = {}
        THEN [chunks |-> [ch EXCEPT ![key].dirty = FALSE], meshes |-> ms1, threw |-> FALSE]
        ELSE [chunks |-> [ch EXCEPT ![key].mesh = n, ![key].dirty = FALSE],
              meshes |-> InstallMesh(ms1, <<key, n>>, faces), threw |-> FALSE]

\* chunk.generateMesh(): the chunk map and the meshes after the call, and
\* whether it threw. The old mesh is released before the loops run; a throw
\* leaves the dirty flag and this.mesh as they were.
GenerateMesh(ch, ms, key) ==
    IF ~ch[key].dirty THEN [chunks |-> ch, meshes |-> ms, threw |-> FALSE]
    ELSE LET ms1 == ReleaseCurrent(ch, ms, key)
             faces == MeshFaces(ch, key)
             n == MeshesMade(ms, key) + 1
         IN  IF MeshThrows(ch[key])
             THEN [chunks |-> ch, meshes |-> ms1, threw |-> TRUE]
             ELSE IF faces = {}
             THEN [chunks |-> [ch EXCEPT ![key].dirty = FALSE], meshes |-> ms1, threw |-> FALSE]
             ELSE [chunks |-> [ch EXCEPT ![key].mesh = n, ![key].dirty = FALSE],
                   meshes |-> InstallMesh(ms1, <<key, n>>, faces), threw |-> FALSE]

\* A dispose that forgets the mesh without removing it from the scene
ChunkDispose_NoRelease(ch, ms, key) ==
    [chunks |-> [ch EXCEPT ![key].mesh = NoMesh], meshes |-> ms]

\* chunk.dispose(): the chunk map and the meshes after the call
ChunkDispose(ch, ms, key) ==
    IF ch[key].mesh # NoMesh
    THEN [chunks |-> [ch EXCEPT ![key].mesh = NoMesh],
          meshes |-> ReleaseMesh(ms, <<key, ch[key].mesh>>)]
    ELSE [chunks |-> ch, meshes |-> ms]

-----------------------------------------------------------------------------
(* Persistence and disposal (Chunk.serialize / deserialize, World.serialize /
   deserialize / dispose) *)

\* chunk.serialize(): Array.from(this.blocks) has the length and the entries of
\* the typed array
ChunkSerialize(key, c) ==
    [chunkX |-> key[1], chunkZ |-> key[2], hasBlocks |-> TRUE, len |-> c.len, blocks |-> c.blocks]

\* A conversion to an array of 2-bit entries
ToUint8Array_TwoBits(d) ==
    IF ~d.hasBlocks THEN <<>>
    ELSE [i \in { j \in DOMAIN d.blocks : d.blocks[j] % 4 # 0 } |-> d.blocks[i] % 4]

\* new Uint8Array(data.blocks): an array of the same length whose entries are
\* taken modulo 256, empty when data.blocks is undefined
ToUint8Array(d) ==
    IF ~d.hasBlocks THEN <<>>
    ELSE [i \in { j \in DOMAIN d.blocks : d.blocks[j] % 256 # 0 } |-> d.blocks[i] % 256]

\* chunk.deserialize(data)
ChunkDeserialize(c, d) ==
    [c EXCEPT !.blocks = ToUint8Array(d),
              !.len = (IF d.hasBlocks THEN d.len ELSE 0),
              !.dirty = TRUE]

\* The keys of a set in the order of their first and then second coordinate
RECURSIVE KeysInOrder(_)
KeysInOrder(ks) ==
    IF ks = {} THEN <<>>
    ELSE LET k == CHOOSE a \in ks : \A b \in ks : a[1] < b[1] \/ (a[1] = b[1] /\ a[2] <= b[2])
         IN  <<k>> \o KeysInOrder(ks \ {k})

\* world.serialize(); the chunks are listed in key order (the list holds each
\* key once, so the order has no effect on deserialize)
WorldSerialize(s, ch) ==
    LET keys == KeysInOrder(DOMAIN ch)
    IN  [seed |-> s, hasChunks |-> TRUE,
         chunks |-> [n \in 1 .. Len(keys) |-> ChunkSerialize(keys[n], ch[keys[n]])]]

\* A clearing of the map that disposes no chunk
DisposeAll_Skip(ch, ms) == ms

\* chunk.dispose() on every chunk of the map: the meshes after the loop
DisposeAll(ch, ms) ==
    [m \in DOMAIN ms |->
        IF m[1] \in DOMAIN ch THEN ChunkDispose(ch, ms, m[1]).meshes[m] ELSE ms[m]]

\* The loop over data.chunks of world.deserialize: a later entry for a key
\* replaces an earlier one
RestoreChunks(d) ==
    LET keyAt(n) == GetChunkKey(d.chunks[n].chunkX, d.chunks[n].chunkZ)
        lastOf(k) == CHOOSE n \in DOMAIN d.chunks :
                        keyAt(n) = k /\ \A n2 \in DOMAIN d.chunks : keyAt(n2) = k => n2 <= n
    IN  [k \in { keyAt(n) : n \in DOMAIN d.chunks } |->
            ChunkDeserialize(NewChunk, d.chunks[lastOf(k)])]

\* What world.deserialize(data) throws: iterating an undefined data.chunks is a
\* TypeError raised after the world has been cleared
DeserializeThrows(d) == ~d.hasChunks

-----------------------------------------------------------------------------
(* World.updateChunks (src/unnamed/part_000) *)

WindowSide == 2 * RENDER_DISTANCE + 1
WindowCells == WindowSide * WindowSide

\* The chunk the n-th pass of the load loops visits, n = 1 .. WindowCells:
\* x outer, z inner, both from -RENDER_DISTANCE to RENDER_DISTANCE
WindowCell(pc, n) ==
    GetChunkKey(pc[1] + ((n - 1) \div WindowSide) - RENDER_DISTANCE,
                pc[2] + ((n - 1) % WindowSide) - RENDER_DISTANCE)

\* The pass of the load loops that visits chunk k
PassOf(pc, k) ==
    (k[1] - pc[1] + RENDER_DISTANCE) * WindowSide + (k[2] - pc[2] + RENDER_DISTANCE) + 1

\* chunksToKeep
ChunksToKeep(pc) == { WindowCell(pc, n) : n \in 1 .. WindowCells }

\* Whether Math.random() < treeChance may hold at a column of chunk key
HasTreeSite(key) == \E site \in TreeSites : KeyOf(site[1], site[2]) = key

\* Passes i .. j-1 of the load loops, none of which generates a chunk in which
\* a tree is placed: getOrCreateChunk, then generateMesh if the chunk is dirty.
\* The mesh of pass n is built on the world of that moment: the chunks resident
\* before plus those the passes up to n created.
LoadRun(ch, ms, s, pc, i, j) ==
    LET created == { k \in { WindowCell(pc, n) : n \in i .. j - 1 } : NeedsCreate(ch, k) }
        gen == [k \in created |-> FillColumns(NewChunk, s, k, 0, LastCol)] @@ <<>>
        worldAt(n) == [k \in DOMAIN ch \cup { c \in created : PassOf(pc, c) <= n } |->
                          IF k \in DOMAIN ch THEN ch[k] ELSE gen[k]] @@ <<>>
        res == [n \in i .. j - 1 |-> GenerateMesh(worldAt(n), ms, WindowCell(pc, n))] @@ <<>>
        inRun(k) == PassOf(pc, k) \in i .. j - 1 /\ WindowCell(pc, PassOf(pc, k)) = k
    IN  [chunks |-> [k \in DOMAIN ch \cup created |->
                        IF inRun(k) THEN res[PassOf(pc, k)].chunks[k] ELSE ch[k]],
         meshes |-> [m \in UNION { DOMAIN res[n].meshes : n \in i .. j - 1 } \cup DOMAIN ms |->
                        IF inRun(m[1]) THEN res[PassOf(pc, m[1])].meshes[m] ELSE ms[m]],
         created |-> created]

\* An unload loop that unloads nothing
Unload_KeepAll(ch, ms, keep) == [chunks |-> ch, meshes |-> ms]

\* The unload loop: chunk.dispose() and chunks.delete(key) for every chunk
\* outside keep
Unload(ch, ms, keep) ==
    [chunks |-> [k \in DOMAIN ch \cap keep |-> ch[k]],
     meshes |-> [m \in DOMAIN ms |->
                   IF m[1] \in DOMAIN ch \ keep THEN ChunkDispose(ch, ms, m[1]).meshes[m]
                   ELSE ms[m]]]

-----------------------------------------------------------------------------
(* Player (src/src/config.js, class Player) *)

\* Lengths are held in UNIT-ths of a block and velocities in VUNIT-ths of a
\* block per second; the components of a direction in DirUnit-ths.  A frame
\* lasts 1 / FramesPerSecond seconds.  With these the positions, velocities and
\* displacements of the model are binary fractions, on which the program's
\* double arithmetic is exact.
UNIT == 5 * 64
VUNIT == 2 * 2
DirUnit == 8 * 125
FramesPerSecond == 2 * 8

\* PLAYER_CONFIG.radius = 0.4, PLAYER_CONFIG.height = 1.8
PLAYER_radius == (4 * UNIT) \div 10
PLAYER_height == (18 * UNIT) \div 10

\* Math.floor and Math.ceil of a length, in blocks
FloorBlock(v) == v \div UNIT
CeilBlock(v) == -((-v) \div UNIT)

Plus(p, q) == <<p[1] + q[1], p[2] + q[2], p[3] + q[3]>>

\* Orientations of the view: fwd is the horizontal forward direction <<x, z>>
\* (-sin yaw, -cos yaw) and dir the view direction
\* (-sin yaw cos pitch, sin pitch, -cos yaw cos pitch)
Looks ==
    << \* pitch = -0.3, yaw = 0, as the constructor sets them
       [fwd |-> <<0, -1000>>, dir |-> <<0, -296, -955>>],
       \* level, toward +x
       [fwd |-> <<1000, 0>>, dir |-> <<1000, 0, 0>>],
       \* downward with sin pitch = -0.6, toward -z
       [fwd |-> <<0, -1000>>, dir |-> <<0, -600, -800>>],
       \* level, toward +x and +z with -sin yaw = 0.6 and -cos yaw = 0.8
       [fwd |-> <<600, 800>>, dir |-> <<600, 0, 800>>] >>

\* new Player(camera, world): the n-th Player made, bound to world w
NewPlayer(n, w) ==
    [id |-> n, world |-> w,
     position |-> <<0, 50 * UNIT, 0>>, vy |-> 0,
     isGrounded |-> FALSE, isFlying |-> FALSE,
     keys |-> {}, look |-> 1, selectedBlock |-> GRASS,
     camera |-> [position |-> <<0, 50 * UNIT, 0>>, look |-> 1]]

\* updateCameraPosition(): camera.position.copy(this.position), rotation from yaw and pitch
UpdateCameraPosition(pl) ==
    [pl EXCEPT !.camera = [position |-> pl.position, look |-> pl.look]]

\* toggleFly()
ToggleFly(pl) ==
    [pl EXCEPT !.isFlying = ~pl.isFlying,
               !.vy = IF ~pl.isFlying THEN 0 ELSE pl.vy]

\* player.deserialize(data)
PlayerDeserialize(pl, d) ==
    UpdateCameraPosition([pl EXCEPT !.position = d.position, !.look = d.look,
                                    !.selectedBlock = d.selectedBlock,
                                    !.isFlying = d.isFlying])

\* The cells the loops of checkCollision and the test of
\* isPositionOccupiedByPlayer range over for a body at p
BoxCells(p) ==
    { <<x, y, z>> :
        x \in FloorBlock(p[1] - PLAYER_radius) .. CeilBlock(p[1] + PLAYER_radius),
        y \in FloorBlock(p[2]) .. CeilBlock(p[2] + PLAYER_height),
        z \in FloorBlock(p[3] - PLAYER_radius) .. CeilBlock(p[3] + PLAYER_radius) }

\* checkCollision(offset) of a player at pos
CheckCollision(ch, pos, offset) ==
    \E c \in BoxCells(Plus(pos, offset)) : WorldGetBlock(ch, c[1], c[2], c[3]) # AIR

\* A test that takes no cell for occupied
IsPositionOccupiedByPlayer_Never(pos, x, y, z) == FALSE

\* isPositionOccupiedByPlayer(x, y, z) of a player at pos
IsPositionOccupiedByPlayer(pos, x, y, z) ==
    /\ x >= FloorBlock(pos[1] - PLAYER_radius) /\ x <= CeilBlock(pos[1] + PLAYER_radius)
    /\ y >= FloorBlock(pos[2]) /\ y <= CeilBlock(pos[2] + PLAYER_height)
    /\ z >= FloorBlock(pos[3] - PLAYER_radius) /\ z <= CeilBlock(pos[3] + PLAYER_radius)

\* The loop of raycast runs while distance < maxDistance, distance growing by
\* 0.1 from 0: in doubles the sum of 50 steps is 4.999999999999998, so the
\* samples are those at 0, 0.1, ..., 5.0
RaySteps == PLAYER_reach * 10

\* The cell of the k-th sample, origin + direction * distance floored
SampleCell(origin, dir, k) ==
    LET at(i) == (origin[i] * DirUnit * 10 + dir[i] * k * UNIT) \div (UNIT * DirUnit * 10)
    IN  <<at(1), at(2), at(3)>>

\* lastAirBlock = null
NoCell == <<>>

\* raycast() with the camera at origin looking along dir
Raycast(ch, origin, dir) ==
    LET solid == { k \in 0 .. RaySteps :
                     LET c == SampleCell(origin, dir, k)
                     IN  WorldGetBlock(ch, c[1], c[2], c[3]) # AIR }
    IN  IF solid = {} THEN [hit |-> FALSE, position |-> NoCell, placePosition |-> NoCell]
        ELSE LET k == CHOOSE n \in solid : \A m \in solid : n <= m
             IN  [hit |-> TRUE, position |-> SampleCell(origin, dir, k),
                  placePosition |-> IF k = 0 THEN NoCell ELSE SampleCell(origin, dir, k - 1)]

\* The view ray of the player: the camera as updateCameraPosition left it
PlayerRaycast(ch, pl) == Raycast(ch, pl.camera.position, Looks[pl.camera.look].dir)

\* Math.sqrt rounded down
ISqrt(q) == CHOOSE n \in 0 .. 2 * DirUnit : n * n <= q /\ q < (n + 1) * (n + 1)

\* direction.normalize() when direction.length() > 0
Normalize(v) ==
    IF v = <<0, 0>> THEN v
    ELSE LET n == ISqrt(v[1] * v[1] + v[2] * v[2])
         IN  <<(v[1] * DirUnit) \div n, (v[2] * DirUnit) \div n>>

\* this.direction of update: forward and right are taken from the camera
KeyDirection(pl) ==
    LET f == Looks[pl.camera.look].fwd
        r == <<-f[2], f[1]>>
        on(k) == IF k \in pl.keys THEN 1 ELSE 0
        a == on("forward") - on("backward")
        b == on("right") - on("left")
    IN  Normalize(<<a * f[1] + b * r[1], a * f[2] + b * r[2]>>)

\* moveSpeed * deltaTime, as a length
MoveStep(pl) ==
    LET speed == IF pl.isFlying THEN PLAYER_flySpeed ELSE PLAYER_speed
    IN  IF "sprint" \in pl.keys THEN (3 * speed * UNIT) \div (2 * FramesPerSecond)
        ELSE (speed * UNIT) \div FramesPerSecond

\* PLAYER_CONFIG.gravity * deltaTime, PLAYER_CONFIG.jumpForce
GravityStep == (PLAYER_gravity * VUNIT) \div FramesPerSecond
JumpVelocity == PLAYER_jumpForce * VUNIT

\* PLAYER_CONFIG.flySpeed * deltaTime, as a length
FlyStep == (PLAYER_flySpeed * UNIT) \div FramesPerSecond

\* velocity.y * deltaTime, as a length
VerticalMove(vy) == (vy * UNIT) \div (VUNIT * FramesPerSecond)

\* const groundCheck = new THREE.Vector3(0, -0.1, 0)
GroundCheck == <<0, -(UNIT \div 10), 0>>

\* A vertical branch in which a held jump key sets the velocity in the air too
Vertical_JumpInAir(ch, pl) ==
    IF pl.isFlying
    THEN [vy |-> pl.vy, isGrounded |-> pl.isGrounded,
          my |-> (IF "jump" \in pl.keys THEN FlyStep ELSE 0)
                 - (IF "flyDown" \in pl.keys THEN FlyStep ELSE 0)]
    ELSE LET fallen == pl.vy - GravityStep
             grounded == CheckCollision(ch, pl.position, GroundCheck)
             vy == IF "jump" \in pl.keys THEN JumpVelocity
                   ELSE IF grounded /\ fallen < 0 THEN 0 ELSE fallen
         IN  [vy |-> vy, isGrounded |-> grounded, my |-> VerticalMove(vy)]

\* The branch of update on isFlying: velocity.y and isGrounded after it, and
\* moveVector.y
Vertical(ch, pl) ==
    IF pl.isFlying
    THEN [vy |-> pl.vy, isGrounded |-> pl.isGrounded,
          my |-> (IF "jump" \in pl.keys THEN FlyStep ELSE 0)
                 - (IF "flyDown" \in pl.keys THEN FlyStep ELSE 0)]
    ELSE LET fallen == pl.vy - GravityStep
             grounded == CheckCollision(ch, pl.position, GroundCheck)
             vy == IF ~grounded THEN fallen
                   ELSE IF "jump" \in pl.keys THEN JumpVelocity
                   ELSE IF fallen < 0 THEN 0 ELSE fallen
         IN  [vy |-> vy, isGrounded |-> grounded, my |-> VerticalMove(vy)]

\* Sub-moves of which a blocked one cancels those after it
Sweep_StopAtBlocked(ch, pos, m) ==
    LET freeX == ~CheckCollision(ch, pos, <<m[1], 0, 0>>)
        p1 == IF freeX THEN Plus(pos, <<m[1], 0, 0>>) ELSE pos
        freeZ == freeX /\ ~CheckCollision(ch, p1, <<0, 0, m[3]>>)
        p2 == IF freeZ THEN Plus(p1, <<0, 0, m[3]>>) ELSE p1
        freeY == freeZ /\ ~CheckCollision(ch, p2, <<0, m[2], 0>>)
    IN  [position |-> IF freeY THEN Plus(p2, <<0, m[2], 0>>) ELSE p2, freeY |-> freeY]

\* The three sub-moves of update for moveVector m from pos: the position after
\* them and whether the vertical one was applied
Sweep(ch, pos, m) ==
    LET p1 == IF ~CheckCollision(ch, pos, <<m[1], 0, 0>>) THEN Plus(pos, <<m[1], 0, 0>>) ELSE pos
        p2 == IF ~CheckCollision(ch, p1, <<0, 0, m[3]>>) THEN Plus(p1, <<0, 0, m[3]>>) ELSE p1
        freeY == ~CheckCollision(ch, p2, <<0, m[2], 0>>)
    IN  [position |-> IF freeY THEN Plus(p2, <<0, m[2], 0>>) ELSE p2, freeY |-> freeY]

\* An update without the floor at 0
FloorClamp_None(pos, vy) == [position |-> pos, vy |-> vy]

\* if (this.position.y < 0) { this.position.y = 0; this.velocity.y = 0 }
FloorClamp(pos, vy) ==
    IF pos[2] < 0 THEN [position |-> <<pos[1], 0, pos[3]>>, vy |-> 0]
    ELSE [position |-> pos, vy |-> vy]

\* moveVector of update
MoveVector(ch, pl) ==
    <<(KeyDirection(pl)[1] * MoveStep(pl)) \div DirUnit,
      Vertical(ch, pl).my,
      (KeyDirection(pl)[2] * MoveStep(pl)) \div DirUnit>>

\* player.update(deltaTime)
PlayerUpdate(ch, pl) ==
    LET v == Vertical(ch, pl)
        m == MoveVector(ch, pl)
        s == Sweep(ch, pl.position, m)
        c == FloorClamp(s.position, IF ~s.freeY /\ m[2] < 0 THEN 0 ELSE v.vy)
    IN  UpdateCameraPosition([pl EXCEPT !.position = c.position, !.vy = c.vy,
                                        !.isGrounded = v.isGrounded])

\* player.serialize() / the player field of a stored save; hasPosition says
\* whether the position field is present
PlayerData(pos, look, t, fly) ==
    [hasPosition |-> TRUE, position |-> pos, look |-> look, selectedBlock |-> t, isFlying |-> fly]

NoPosition ==
    [hasPosition |-> FALSE, position |-> <<0, 0, 0>>, look |-> 1, selectedBlock |-> GRASS,
     isFlying |-> FALSE]

PlayerSerialize(pl) == PlayerData(pl.position, pl.look, pl.selectedBlock, pl.isFlying)

\* What player.deserialize(data) throws: position.fromArray(undefined) is a TypeError
PlayerDeserializeThrows(d) == ~d.hasPosition

\* Half a block, and 1/64 of a block
Half == UNIT \div 2
Tick64 == UNIT \div 64

\* Saved players of the behaviours in which the player moves through the arena
MoveSaves ==
    { \* 2/64 above the floor west of the wall, heading toward +x and +z
      PlayerData(<<8 * UNIT + Half, UNIT + 2 * Tick64, 8 * UNIT + Half>>, 4, GRASS, FALSE),
      \* on the floor west of the wall, heading toward +x
      PlayerData(<<8 * UNIT + Half, UNIT, 5 * UNIT + Half>>, 2, GRASS, FALSE),
      \* beside the arena, 6/64 above level 0, nothing below
      PlayerData(<<2 * UNIT + Half, 6 * Tick64, 2 * UNIT + Half>>, 1, GRASS, FALSE) }

\* Saved players of the behaviours in which the player targets blocks
AimSaves ==
    { \* hovering over the floor, looking down toward -z
      PlayerData(<<8 * UNIT + Half, 3 * UNIT + 2 * Tick64, 8 * UNIT + 45 * Tick64>>, 3, STONE, TRUE),
      \* on the floor west of the wall, looking at it
      PlayerData(<<8 * UNIT + Half, UNIT, 8 * UNIT + Half>>, 2, STONE, FALSE),
      \* inside the wall
      PlayerData(<<10 * UNIT + Half, UNIT + Half, 8 * UNIT + Half>>, 2, STONE, TRUE) }

\* Saved players of the behaviours in which the player falls onto the arena
FallSaves ==
    { \* high above the floor west of the wall
      PlayerData(<<8 * UNIT + Half, 100 * UNIT + 46 * Tick64, 8 * UNIT + Half>>, 2, STONE, FALSE),
      \* three and a half blocks above the floor
      PlayerData(<<8 * UNIT + Half, 4 * UNIT + Half, 8 * UNIT + Half>>, 2, STONE, FALSE) }

\* The saved player of the behaviours in which the player leaves the arena:
\* hovering over the floor, looking down toward -z
TravelSave ==
    PlayerData(<<8 * UNIT + Half, 3 * UNIT + 2 * Tick64, 8 * UNIT + 45 * Tick64>>, 3, STONE, TRUE)

\* Keys held during a frame: at most one of the two horizontal axes is active,
\* so that the normalized direction is one of Looks
KeySets ==
    { {}, {"forward"}, {"forward", "sprint"}, {"jump"}, {"flyDown"}, {"backward"} }

\* Offsets checkCollision is called with at top level: none, 3/16 of a block
\* toward +x, the ground probe, a quarter of a block toward +z
CollisionOffsets ==
    { <<0, 0, 0>>, <<12 * Tick64, 0, 0>>, <<0, -(UNIT \div 10), 0>>, <<0, 0, 16 * Tick64>> }

-----------------------------------------------------------------------------
(* Game (src/unnamed/part_001) *)

\* What the store holds under 'main': present says whether there is an entry
SavedGame(w, pd) == [present |-> TRUE, world |-> w, player |-> pd]
NoSave == [present |-> FALSE, world |-> Payloads[5], player |-> NoPosition]

\* What the store may hold when the page is opened
StoredSaves ==
    { NoSave,
      \* a world of one chunk and a player on the ground
      SavedGame(Payloads[1], PlayerData(<<8 * UNIT + Half, UNIT, 8 * UNIT + Half>>, 2, STONE, FALSE)),
      \* a world without a chunk list
      SavedGame(Payloads[5], PlayerData(<<8 * UNIT + Half, UNIT, 8 * UNIT + Half>>, 2, STONE, FALSE)),
      \* a world of two chunks and a player without a position
      SavedGame(Payloads[2], NoPosition) }

\* A world and a player made outside a Game
NoGame ==
    [isRunning |-> FALSE, world |-> 1, worlds |-> 1, players |-> 1, stored |-> NoSave, waiting |-> 0,
     disposed |-> {}]

\* new Game(): this.world = null, this.player = null, isRunning = false
NewGame(stored) ==
    [isRunning |-> FALSE, world |-> 0, worlds |-> 0, players |-> 0, stored |-> stored, waiting |-> 0,
     disposed |-> {}]

\* What is followed of a Player that is no longer this.player: its keydown and
\* mousedown listeners stay on the document
Listener(pl) ==
    [id |-> pl.id, world |-> pl.world, isFlying |-> pl.isFlying, selectedBlock |-> pl.selectedBlock]

\* this.player = new Player(...) over the player pl
Replaced(old, pl) == IF pl.id # 0 THEN Append(old, Listener(pl)) ELSE old

\* if (this.world) this.world.dispose()
DisposedWith(g) == IF g.world # 0 THEN g.disposed \cup {g.world} ELSE g.disposed

\* this.player = null
NoPlayer == NewPlayer(0, 0)

\* No block placed or broken by the player, in the world or in the stored
\* save; by is the player as it was when the save was written, no player if
\* the save was not written by this game
NoEdits == [made |-> <<>>, saved |-> <<>>, by |-> NoPlayer]

\* The spawn scan of startNewGame: two above the highest solid cell of column
\* (0, 0), 50 if there is none
SpawnY(ch) ==
    LET solid == { y \in 0 .. CHUNK_HEIGHT - 1 : WorldGetBlock(ch, 0, y, 0) # 0 }
    IN  IF solid = {} THEN 50 ELSE (CHOOSE y \in solid : \A y2 \in solid : y2 <= y) + 2

\* A fallback that sets isRunning and keeps the world and the player as they are
StartNewGame_KeepWorld(st, now) ==
    [st EXCEPT !.game.isRunning = TRUE]

\* startNewGame() on the state st = [seed, chunks, meshes, player, game,
\* earlier, edits], with Date.now() = now
StartNewGame(st, now) ==
    LET w == st.game.worlds + 1
        n == st.game.players + 1
        pl == NewPlayer(n, w)
    IN  [seed |-> now,
         chunks |-> <<>>,
         meshes |-> IF st.game.world # 0 THEN DisposeAll(st.chunks, st.meshes) ELSE st.meshes,
         player |-> UpdateCameraPosition([pl EXCEPT !.position = <<0, SpawnY(<<>>) * UNIT, 0>>]),
         game |-> [st.game EXCEPT !.isRunning = TRUE, !.world = w, !.worlds = w, !.players = n,
                                  !.disposed = DisposedWith(st.game)],
         earlier |-> Replaced(st.earlier, st.player),
         edits |-> [st.edits EXCEPT !.made = <<>>]]

\* A continueGame() that stops where it fails, its fallback not run
ContinueSettled_Deferred(st, rejected, now) ==
    LET save == st.game.stored
        w == st.game.worlds + 1
        n == st.game.players + 1
        loaded == [st EXCEPT !.seed = save.world.seed,
                             !.chunks = IF DeserializeThrows(save.world) THEN <<>>
                                        ELSE RestoreChunks(save.world),
                             !.meshes = IF st.game.world # 0 THEN DisposeAll(st.chunks, st.meshes)
                                        ELSE st.meshes,
                             !.game.world = w, !.game.worlds = w,
                             !.game.disposed = DisposedWith(st.game),
                             !.edits.made = <<>>]
        manned == [loaded EXCEPT !.player = NewPlayer(n, w), !.game.players = n,
                                 !.earlier = Replaced(st.earlier, st.player)]
    IN  IF rejected \/ ~save.present THEN st
        ELSE IF DeserializeThrows(save.world) THEN loaded
        ELSE IF PlayerDeserializeThrows(save.player) THEN manned
        ELSE [manned EXCEPT !.player = PlayerDeserialize(manned.player, save.player),
                            !.game.isRunning = TRUE,
                            !.edits.made = st.edits.saved]

\* continueGame() from the point where loadWorld() has settled: rejected, or
\* resolved with what the store holds
ContinueSettled(st, rejected, now) ==
    LET save == st.game.stored
        w == st.game.worlds + 1
        n == st.game.players + 1
        \* this.world = new World(scene, seed); this.world.deserialize(savedData.world)
        loaded == [st EXCEPT !.seed = save.world.seed,
                             !.chunks = IF DeserializeThrows(save.world) THEN <<>>
                                        ELSE RestoreChunks(save.world),
                             !.meshes = IF st.game.world # 0 THEN DisposeAll(st.chunks, st.meshes)
                                        ELSE st.meshes,
                             !.game.world = w, !.game.worlds = w,
                             !.game.disposed = DisposedWith(st.game),
                             !.edits.made = <<>>]
        \* this.player = new Player(camera, this.world)
        manned == [loaded EXCEPT !.player = NewPlayer(n, w), !.game.players = n,
                                 !.earlier = Replaced(st.earlier, st.player)]
    IN  IF rejected \/ ~save.present THEN StartNewGame(st, now)
        ELSE IF DeserializeThrows(save.world) THEN StartNewGame(loaded, now)
        ELSE IF PlayerDeserializeThrows(save.player) THEN StartNewGame(manned, now)
        ELSE [manned EXCEPT !.player = PlayerDeserialize(manned.player, save.player),
                            !.game.isRunning = TRUE,
                            !.edits.made = st.edits.saved]

-----------------------------------------------------------------------------
(* Call stack *)

Top == stack[Len(stack)]
Pop == SubSeq(stack, 1, Len(stack) - 1)

\* generateChunkTerrain(chunk) about to visit column col
GenFrame(key, col) ==
    [op |-> "gen", key |-> key, col |-> col, w |-> <<0, 0, 0, 0>>, th |-> 0, k |-> 0]

\* generateTree(x, y, z) about to make write number k; key is the chunk being generated
TreeFrame(key, x, y, z, th, k) ==
    [op |-> "tree", key |-> key, col |-> 0, w |-> <<x, y, z, WOOD>>, th |-> th, k |-> k]

\* World.setBlock(x, y, z, t) waiting for getOrCreateChunk to return
SetFrame(x, y, z, t) ==
    [op |-> "set", key |-> KeyOf(x, z), col |-> 0, w |-> <<x, y, z, t>>, th |-> 0, k |-> 0]

\* updateChunks(px, pz) about to make pass k of its load loops; key is the
\* player chunk
UpdateFrame(px, pz, k) ==
    [op |-> "update", key |-> GetChunkKey(ChunkOf(px), ChunkOf(pz)), col |-> 0,
     w |-> <<px, 0, pz, 0>>, th |-> 0, k |-> k]

\* Chunks whose generateChunkTerrain has started and not returned
Generating == { stack[i].key : i \in { j \in 1 .. Len(stack) : stack[j].op = "gen" } }

GenRuns(key) == IF key \in DOMAIN genCount THEN genCount[key] ELSE 0

CallRec(op, key, w, ret, done) ==
    [op |-> op, key |-> key, w |-> w, ret |-> ret, done |-> done]

\* No handler is running: the next top-level call can start
NoCall == CallRec("none", <<0, 0>>, <<0, 0, 0, 0>>, 0, TRUE)
Idle == stack = <<>> /\ call = NoCall

\* The top-level call has run to completion and has not yet returned to its caller
Completed == stack = <<>> /\ call # NoCall /\ call.done

-----------------------------------------------------------------------------
(* Initial state: new World(scene, seed) *)

Init ==
    /\ seed \in Seeds
    /\ chunks = <<>>
    /\ stack = <<>>
    /\ call = NoCall
    /\ pre = <<>>
    /\ genCount = <<>>
    /\ halfSeen = FALSE
    /\ ops = 0
    /\ meshes = <<>>
    /\ treeLog = <<>>
    /\ firstGen = <<>>
    /\ player = NewPlayer(1, 1)
    /\ game = NoGame
    /\ earlier = <<>>
    /\ edits = NoEdits

-----------------------------------------------------------------------------
(* getOrCreateChunk creating: new Chunk, chunks.set, generateChunkTerrain starts *)

StartGeneration(ch, key, below) ==
    /\ chunks' = CreateChunk(ch, key)
    /\ genCount' = [k \in DOMAIN genCount \cup {key} |->
                      IF k = key
                      THEN (IF Absent(chunks, key) THEN 1 ELSE GenRuns(key) + 1)
                      ELSE genCount[k]]
    /\ stack' = Append(below, GenFrame(key, 0))

-----------------------------------------------------------------------------
(* Top-level calls *)

\* World.setBlock(x, y, z, t)
CallWorldSetBlock(w, t) ==
    LET x == w[1]
        y == w[2]
        z == w[3]
        key == KeyOf(x, z)
    IN  /\ Idle
        /\ ops < MaxOps
        /\ ops' = ops + 1
        /\ pre' = chunks
        /\ IF YOutOfWorld(y)
           THEN /\ call' = CallRec("World.setBlock", key, <<x, y, z, t>>, FALSE, TRUE)
                /\ UNCHANGED <<chunks, stack, genCount>>
           ELSE IF NeedsCreate(chunks, key)
           THEN /\ call' = CallRec("World.setBlock", key, <<x, y, z, t>>, FALSE, FALSE)
                /\ StartGeneration(chunks, key, <<SetFrame(x, y, z, t)>>)
           ELSE /\ call' = CallRec("World.setBlock", key, <<x, y, z, t>>, TRUE, TRUE)
                /\ chunks' = SetBlockResident(chunks, x, y, z, t)
                /\ UNCHANGED <<stack, genCount>>
        /\ UNCHANGED <<seed, halfSeen, meshes, treeLog, firstGen, player, game, earlier, edits>>

\* World.setBlock resumes after getOrCreateChunk has returned the new chunk
SetFinish ==
    /\ stack # <<>>
    /\ Top.op = "set"
    /\ chunks' = SetBlockResident(chunks, Top.w[1], Top.w[2], Top.w[3], Top.w[4])
    /\ stack' = Pop
    /\ call' = [call EXCEPT !.ret = IF call.op = "World.setBlock" THEN TRUE ELSE call.ret,
                            !.done = (Len(stack) = 1)]
    /\ UNCHANGED <<seed, pre, genCount, halfSeen, ops, meshes, treeLog, firstGen, player, game, earlier, edits>>

\* World.getBlock(x, y, z)
CallWorldGetBlock(w) ==
    /\ Idle
    /\ pre' = chunks
    /\ chunks' = IF YOutOfWorld(w[2]) THEN chunks ELSE LookupChunk(chunks, KeyOf(w[1], w[3]))
    /\ call' = CallRec("World.getBlock", KeyOf(w[1], w[3]), <<w[1], w[2], w[3], 0>>,
                       WorldGetBlock(chunks', w[1], w[2], w[3]), TRUE)
    /\ UNCHANGED <<seed, stack, genCount, halfSeen, ops, meshes, treeLog, firstGen, player, game, earlier, edits>>

\* World.getOrCreateChunk(cx, cz)
CallGetOrCreateChunk(key) ==
    /\ Idle
    /\ ops < MaxOps
    /\ ops' = ops + 1
    /\ pre' = chunks
    /\ IF NeedsCreate(chunks, key)
       THEN /\ call' = CallRec("World.getOrCreateChunk", key, <<0, 0, 0, 0>>, 0, FALSE)
            /\ StartGeneration(chunks, key, <<>>)
       ELSE /\ call' = CallRec("World.getOrCreateChunk", key, <<0, 0, 0, 0>>, 0, TRUE)
            /\ UNCHANGED <<chunks, stack, genCount>>
    /\ UNCHANGED <<seed, halfSeen, meshes, treeLog, firstGen, player, game, earlier, edits>>

\* chunk.setBlock(x, y, z, t) on a resident chunk
CallChunkSetBlock(key, lc, t) ==
    /\ Idle
    /\ key \in DOMAIN chunks
    /\ ops < MaxOps
    /\ ops' = ops + 1
    /\ pre' = chunks
    /\ chunks' = [chunks EXCEPT ![key] = ChunkSetBlock(@, lc[1], lc[2], lc[3], t)]
    /\ call' = CallRec("Chunk.setBlock", key, <<lc[1], lc[2], lc[3], t>>, 0, TRUE)
    /\ UNCHANGED <<seed, stack, genCount, halfSeen, meshes, treeLog, firstGen, player, game, earlier, edits>>

\* chunk.getBlock(x, y, z) on a resident chunk
CallChunkGetBlock(key, lc) ==
    /\ Idle
    /\ key \in DOMAIN chunks
    /\ pre' = chunks
    /\ call' = CallRec("Chunk.getBlock", key, <<lc[1], lc[2], lc[3], 0>>,
                       ChunkGetBlock(chunks[key], lc[1], lc[2], lc[3]), TRUE)
    /\ UNCHANGED <<seed, chunks, stack, genCount, halfSeen, ops, meshes, treeLog, firstGen, player, game, earlier, edits>>

\* chunk.generateMesh() on a resident chunk
CallGenerateMesh(key) ==
    /\ Idle
    /\ key \in DOMAIN chunks
    /\ pre' = chunks
    /\ \E r \in {GenerateMesh(chunks, meshes, key)} :
          /\ chunks' = r.chunks
          /\ meshes' = r.meshes
          /\ call' = CallRec("Chunk.generateMesh", key, <<0, 0, 0, 0>>,
                             IF r.threw THEN "TypeError" ELSE "undefined", TRUE)
    /\ UNCHANGED <<seed, stack, genCount, halfSeen, ops, treeLog, firstGen, player, game, earlier, edits>>

-----------------------------------------------------------------------------
(* Steps of generateChunkTerrain and generateTree *)

\* The fill loop runs up to and including column c, where Math.random() < treeChance
\* holds for the first time since column Top.col, and generateTree is entered
GenTree(c, th) ==
    /\ stack # <<>>
    /\ Top.op = "gen"
    /\ c >= Top.col
    /\ <<ColumnWorldX(Top.key, c), ColumnWorldZ(Top.key, c)>> \in TreeSites
    /\ ColumnHeight(seed, Top.key, c) < CHUNK_HEIGHT - 6
    /\ chunks' = [chunks EXCEPT ![Top.key] = FillColumns(@, seed, Top.key, Top.col, c)]
    /\ stack' = Pop \o << GenFrame(Top.key, c + 1),
                          TreeFrame(Top.key, ColumnWorldX(Top.key, c),
                                    ColumnHeight(seed, Top.key, c),
                                    ColumnWorldZ(Top.key, c), th, 1) >>
    /\ treeLog' = LogTrees(treeLog, seed, Top.key, Top.col, c, th)
    /\ UNCHANGED <<seed, call, pre, genCount, halfSeen, ops, meshes, firstGen, player, game, earlier, edits>>

\* The fill loop runs to the last column without a further tree and returns
GenFinish ==
    /\ stack # <<>>
    /\ Top.op = "gen"
    /\ chunks' = [chunks EXCEPT ![Top.key] = FillColumns(@, seed, Top.key, Top.col, LastCol)]
    /\ stack' = Pop
    /\ call' = [call EXCEPT !.done = (Len(stack) = 1)]
    /\ treeLog' = LogTrees(treeLog, seed, Top.key, Top.col, LastCol + 1, 0)
    /\ firstGen' = RecordFirst(firstGen, seed, {Top.key}, chunks')
    /\ UNCHANGED <<seed, pre, genCount, halfSeen, ops, meshes, player, game, earlier, edits>>

\* Whether writes ws[from..to] reach a chunk other than own that is still being generated
ReachesGenerating(ws, from, to, own) ==
    \E i \in from .. to :
        /\ ~YOutOfWorld(ws[i][2])
        /\ KeyOf(ws[i][1], ws[i][3]) # own
        /\ KeyOf(ws[i][1], ws[i][3]) \in Generating

\* generateTree writes on until a write's chunk has to be created
TreeCreate ==
    /\ stack # <<>>
    /\ Top.op = "tree"
    /\ LET ws == TreeWrites(Top.w[1], Top.w[2], Top.w[3], Top.th)
           blocked == { i \in Top.k .. Len(ws) : WriteCreates(chunks, ws[i]) }
       IN  /\ blocked # {}
           /\ LET j == CHOOSE i \in blocked : \A i2 \in blocked : i <= i2
                  ch1 == ApplyWrites(chunks, ws, Top.k, j - 1)
              IN  /\ StartGeneration(ch1, KeyOf(ws[j][1], ws[j][3]),
                                     Append(Pop, [Top EXCEPT !.k = j]))
                  /\ halfSeen' = (halfSeen \/ ReachesGenerating(ws, Top.k, j - 1, Top.key))
    /\ UNCHANGED <<seed, call, pre, ops, meshes, treeLog, firstGen, player, game, earlier, edits>>

\* generateTree makes its remaining writes and returns
TreeFinish ==
    /\ stack # <<>>
    /\ Top.op = "tree"
    /\ LET ws == TreeWrites(Top.w[1], Top.w[2], Top.w[3], Top.th)
       IN  /\ \A i \in Top.k .. Len(ws) : ~WriteCreates(chunks, ws[i])
           /\ chunks' = ApplyWrites(chunks, ws, Top.k, Len(ws))
           /\ halfSeen' = (halfSeen \/ ReachesGenerating(ws, Top.k, Len(ws), Top.key))
    /\ stack' = Pop
    /\ UNCHANGED <<seed, call, pre, genCount, ops, meshes, treeLog, firstGen, player, game, earlier, edits>>

\* world.updateChunks(px, pz)
CallUpdateChunks(p) ==
    /\ Idle
    /\ ops < MaxUpdates
    /\ ops' = ops + 1
    /\ pre' = chunks
    /\ stack' = << UpdateFrame(p[1], p[2], 1) >>
    /\ call' = CallRec("World.updateChunks", GetChunkKey(ChunkOf(p[1]), ChunkOf(p[2])),
                       <<p[1], 0, p[2], 0>>, "undefined", FALSE)
    /\ UNCHANGED <<seed, chunks, genCount, halfSeen, meshes, treeLog, firstGen, player, game, earlier, edits>>

\* The load loops reach a chunk that is absent and in which a tree may be
\* placed: getOrCreateChunk creates it and its generation starts
UpdateCreate ==
    /\ stack # <<>>
    /\ Top.op = "update"
    /\ Top.k <= WindowCells
    /\ NeedsCreate(chunks, WindowCell(Top.key, Top.k))
    /\ HasTreeSite(WindowCell(Top.key, Top.k))
    /\ StartGeneration(chunks, WindowCell(Top.key, Top.k), stack)
    /\ UNCHANGED <<seed, call, pre, halfSeen, ops, meshes, treeLog, firstGen, player, game, earlier, edits>>

\* Whether pass n of the load loops calls generateMesh on a resident chunk and
\* the call throws
PassThrows(ch, pc, n) ==
    /\ ~NeedsCreate(ch, WindowCell(pc, n))
    /\ ch[WindowCell(pc, n)].dirty
    /\ MeshThrows(ch[WindowCell(pc, n)])

\* The load loops run on up to the next such chunk, or to their end; a
\* generateMesh that throws ends updateChunks there, after the old mesh of the
\* chunk has been released
UpdateRun ==
    /\ stack # <<>>
    /\ Top.op = "update"
    /\ Top.k <= WindowCells
    /\ ~(NeedsCreate(chunks, WindowCell(Top.key, Top.k)) /\ HasTreeSite(WindowCell(Top.key, Top.k)))
    /\ IF PassThrows(chunks, Top.key, Top.k)
       THEN /\ meshes' = ReleaseCurrent(chunks, meshes, WindowCell(Top.key, Top.k))
            /\ stack' = <<>>
            /\ call' = [call EXCEPT !.ret = "TypeError", !.done = TRUE]
            /\ UNCHANGED <<chunks, genCount, firstGen>>
       ELSE /\ LET stops == { n \in Top.k .. WindowCells :
                                \/ /\ NeedsCreate(chunks, WindowCell(Top.key, n))
                                   /\ HasTreeSite(WindowCell(Top.key, n))
                                \/ PassThrows(chunks, Top.key, n) }
                   j == IF stops = {} THEN WindowCells + 1
                        ELSE CHOOSE n \in stops : \A n2 \in stops : n <= n2
               IN  \E r \in {LoadRun(chunks, meshes, seed, Top.key, Top.k, j)} :
                   /\ chunks' = r.chunks
                   /\ meshes' = r.meshes
                   /\ genCount' = [k \in DOMAIN genCount \cup r.created |->
                                     IF k \in r.created THEN 1 ELSE genCount[k]]
                   /\ stack' = Append(Pop, [Top EXCEPT !.k = j])
                   /\ firstGen' = RecordFirst(firstGen, seed, r.created, r.chunks)
            /\ UNCHANGED call
    /\ UNCHANGED <<seed, pre, halfSeen, ops, treeLog, player, game, earlier, edits>>

\* The unload loop, and updateChunks returns
UpdateUnload ==
    /\ stack # <<>>
    /\ Top.op = "update"
    /\ Top.k = WindowCells + 1
    /\ \E r \in {Unload(chunks, meshes, ChunksToKeep(Top.key))} :
           /\ chunks' = r.chunks
           /\ meshes' = r.meshes
           /\ genCount' = [k \in DOMAIN genCount \cap ChunksToKeep(Top.key) |-> genCount[k]]
    /\ stack' = Pop
    /\ call' = [call EXCEPT !.done = (Len(stack) = 1)]
    /\ UNCHANGED <<seed, pre, halfSeen, ops, treeLog, firstGen, player, game, earlier, edits>>

\* world.dispose()
CallWorldDispose ==
    /\ Idle
    /\ pre' = chunks
    /\ meshes' = DisposeAll(chunks, meshes)
    /\ chunks' = <<>>
    /\ genCount' = <<>>
    /\ call' = CallRec("World.dispose", <<0, 0>>, <<0, 0, 0, 0>>, 0, TRUE)
    /\ UNCHANGED <<seed, stack, halfSeen, ops, treeLog, firstGen, player, game, earlier, edits>>

\* world.deserialize(data), data being Payloads[i] or, for i = 0, what
\* world.serialize() returns
CallDeserialize(i) ==
    \E d \in {IF i = 0 THEN WorldSerialize(seed, chunks) ELSE Payloads[i]} :
        /\ Idle
        /\ ops < MaxOps
        /\ ops' = ops + 1
        /\ pre' = chunks
        /\ seed' = d.seed
        /\ meshes' = DisposeAll(chunks, meshes)
        /\ chunks' = IF DeserializeThrows(d) THEN <<>> ELSE RestoreChunks(d)
        /\ genCount' = <<>>
        /\ call' = CallRec("World.deserialize", <<0, 0>>, <<i, 0, 0, 0>>,
                           IF DeserializeThrows(d) THEN "TypeError" ELSE "undefined", TRUE)
        /\ UNCHANGED <<stack, halfSeen, treeLog, firstGen, player, game, earlier, edits>>

-----------------------------------------------------------------------------
(* Calls on the player and input events *)

\* The keydown and keyup events between two frames leave the keys ks held
KeyEvents(ks) ==
    /\ Idle
    /\ player.id # 0
    /\ player' = [player EXCEPT !.keys = ks]
    /\ UNCHANGED <<seed, chunks, stack, call, pre, genCount, halfSeen, ops, meshes, treeLog,
                   firstGen, game, earlier, edits>>

\* keydown KeyF: the listener of every Player made so far runs toggleFly()
KeyF ==
    /\ Idle
    /\ player.id # 0
    /\ player' = ToggleFly(player)
    /\ earlier' = [i \in DOMAIN earlier |-> [earlier[i] EXCEPT !.isFlying = ~@]]
    /\ UNCHANGED <<seed, chunks, stack, call, pre, genCount, halfSeen, ops, meshes, treeLog,
                   firstGen, game, edits>>

\* keydown Digit1 .. Digit5: the listener of every Player made so far sets
\* its selectedBlock
KeyDigit(t) ==
    /\ Idle
    /\ player.id # 0
    /\ player' = [player EXCEPT !.selectedBlock = t]
    /\ earlier' = [i \in DOMAIN earlier |-> [earlier[i] EXCEPT !.selectedBlock = t]]
    /\ UNCHANGED <<seed, chunks, stack, call, pre, genCount, halfSeen, ops, meshes, treeLog,
                   firstGen, game, edits>>

\* mousemove events leave yaw and pitch at those of Looks[l]; the camera keeps
\* its orientation until updateCameraPosition runs
MouseMove(l) ==
    /\ Idle
    /\ player.id # 0
    /\ player' = [player EXCEPT !.look = l]
    /\ UNCHANGED <<seed, chunks, stack, call, pre, genCount, halfSeen, ops, meshes, treeLog,
                   firstGen, game, earlier, edits>>

\* player.deserialize(data)
CallPlayerDeserialize(d) ==
    /\ Idle
    /\ player.id # 0
    /\ pre' = chunks
    /\ player' = IF PlayerDeserializeThrows(d) THEN player ELSE PlayerDeserialize(player, d)
    /\ call' = CallRec("Player.deserialize", <<0, 0>>, <<0, 0, 0, 0>>,
                       IF PlayerDeserializeThrows(d) THEN "TypeError" ELSE "undefined", TRUE)
    /\ UNCHANGED <<seed, chunks, stack, genCount, halfSeen, ops, meshes, treeLog, firstGen, game, earlier, edits>>

\* player.update(deltaTime)
CallPlayerUpdate ==
    /\ Idle
    /\ player.id # 0
    /\ ops < MaxTicks
    /\ ops' = ops + 1
    /\ pre' = chunks
    /\ player' = PlayerUpdate(chunks, player)
    /\ call' = CallRec("Player.update", <<0, 0>>, <<0, 0, 0, 0>>, "undefined", TRUE)
    /\ UNCHANGED <<seed, chunks, stack, genCount, halfSeen, meshes, treeLog, firstGen, game, earlier, edits>>

\* player.checkCollision(offset)
CallCheckCollision(offset) ==
    /\ Idle
    /\ player.id # 0
    /\ pre' = chunks
    /\ call' = CallRec("Player.checkCollision", <<0, 0>>, <<offset[1], offset[2], offset[3], 0>>,
                       CheckCollision(chunks, player.position, offset), TRUE)
    /\ UNCHANGED <<seed, chunks, stack, genCount, halfSeen, ops, meshes, treeLog, firstGen,
                   player, game, earlier, edits>>

\* player.raycast()
CallRaycast ==
    /\ Idle
    /\ player.id # 0
    /\ pre' = chunks
    /\ call' = CallRec("Player.raycast", <<0, 0>>, <<0, 0, 0, 0>>,
                       PlayerRaycast(chunks, player), TRUE)
    /\ UNCHANGED <<seed, chunks, stack, genCount, halfSeen, ops, meshes, treeLog, firstGen,
                   player, game, earlier, edits>>

\* this.world.setBlock(c, t) as the last statement of the player's call op
PlayerSetBlock(op, c, t) ==
    LET key == KeyOf(c[1], c[3])
    IN  IF YOutOfWorld(c[2])
        THEN /\ call' = CallRec(op, key, <<c[1], c[2], c[3], t>>, "undefined", TRUE)
             /\ UNCHANGED <<chunks, stack, genCount>>
        ELSE IF NeedsCreate(chunks, key)
        THEN /\ call' = CallRec(op, key, <<c[1], c[2], c[3], t>>, "undefined", FALSE)
             /\ StartGeneration(chunks, key, <<SetFrame(c[1], c[2], c[3], t)>>)
        ELSE /\ call' = CallRec(op, key, <<c[1], c[2], c[3], t>>, "undefined", TRUE)
             /\ chunks' = SetBlockResident(chunks, c[1], c[2], c[3], t)
             /\ UNCHANGED <<stack, genCount>>

\* The player's edits after world.setBlock(c, t) issued by breakBlock or
\* placeBlock; a write above or below the world changes nothing
Edited(e, c, t) ==
    IF YOutOfWorld(c[2]) THEN e
    ELSE [e EXCEPT !.made = [d \in DOMAIN e.made \cup {c} |-> IF d = c THEN t ELSE e.made[d]]]

\* player.breakBlock()
CallBreakBlock ==
    /\ Idle
    /\ player.id # 0
    /\ ops < MaxTicks
    /\ ops' = ops + 1
    /\ pre' = chunks
    /\ \E r \in {PlayerRaycast(chunks, player)} :
          IF r.hit
          THEN /\ PlayerSetBlock("Player.breakBlock", r.position, AIR)
               /\ edits' = Edited(edits, r.position, AIR)
          ELSE /\ call' = CallRec("Player.breakBlock", <<0, 0>>, <<0, 0, 0, 0>>, "undefined", TRUE)
               /\ UNCHANGED <<chunks, stack, genCount, edits>>
    /\ UNCHANGED <<seed, halfSeen, meshes, treeLog, firstGen, player, game, earlier>>

\* player.placeBlock()
CallPlaceBlock ==
    /\ Idle
    /\ player.id # 0
    /\ ops < MaxTicks
    /\ ops' = ops + 1
    /\ pre' = chunks
    /\ \E r \in {PlayerRaycast(chunks, player)} :
          IF /\ r.hit
             /\ r.placePosition # NoCell
             /\ ~IsPositionOccupiedByPlayer(player.position, r.placePosition[1],
                                            r.placePosition[2], r.placePosition[3])
          THEN /\ PlayerSetBlock("Player.placeBlock", r.placePosition, player.selectedBlock)
               /\ edits' = Edited(edits, r.placePosition, player.selectedBlock)
          ELSE /\ call' = CallRec("Player.placeBlock", <<0, 0>>, <<0, 0, 0, 0>>, "undefined", TRUE)
               /\ UNCHANGED <<chunks, stack, genCount, edits>>
    /\ UNCHANGED <<seed, halfSeen, meshes, treeLog, firstGen, player, game, earlier>>

-----------------------------------------------------------------------------
(* Menu handlers of the game *)

GameState ==
    [seed |-> seed, chunks |-> chunks, meshes |-> meshes, player |-> player, game |-> game,
     earlier |-> earlier, edits |-> edits]

\* onNewGame: startNewGame()
CallStartNewGame(now) ==
    /\ Idle
    /\ game.worlds < MaxWorlds
    /\ pre' = chunks
    /\ \E r \in {StartNewGame(GameState, now)} :
          /\ seed' = r.seed
          /\ chunks' = r.chunks
          /\ meshes' = r.meshes
          /\ player' = r.player
          /\ game' = r.game
          /\ earlier' = r.earlier
          /\ edits' = r.edits
    /\ genCount' = <<>>
    /\ call' = CallRec("Game.startNewGame", <<0, 0>>, <<now, 0, 0, 0>>, "undefined", TRUE)
    /\ UNCHANGED <<stack, halfSeen, ops, treeLog, firstGen>>

\* onContinue: continueGame() up to its await of storage.loadWorld()
CallContinueGame ==
    /\ Idle
    /\ game.worlds < MaxWorlds
    /\ game.waiting < 2
    /\ game' = [game EXCEPT !.waiting = @ + 1]
    /\ UNCHANGED <<seed, chunks, stack, call, pre, genCount, halfSeen, ops, meshes, treeLog,
                   firstGen, player, earlier, edits>>

\* loadWorld() settles and a waiting continueGame() runs to its end
ContinueResume(rejected, now) ==
    /\ Idle
    /\ game.waiting > 0
    /\ pre' = chunks
    /\ \E r \in {ContinueSettled([GameState EXCEPT !.game.waiting = @ - 1], rejected, now)} :
          /\ seed' = r.seed
          /\ chunks' = r.chunks
          /\ meshes' = r.meshes
          /\ player' = r.player
          /\ game' = r.game
          /\ earlier' = r.earlier
          /\ edits' = r.edits
    /\ genCount' = <<>>
    /\ call' = CallRec("Game.continueGame", <<0, 0>>, <<now, 0, 0, 0>>,
                       IF rejected THEN "rejected" ELSE "resolved", TRUE)
    /\ UNCHANGED <<stack, halfSeen, ops, treeLog, firstGen>>

\* onSave: saveGame(); stored says whether the put succeeds
CallSaveGame(stored) ==
    /\ Idle
    /\ pre' = chunks
    /\ game' = IF game.world # 0 /\ player.id # 0 /\ stored
               THEN [game EXCEPT !.stored = SavedGame(WorldSerialize(seed, chunks),
                                                      PlayerSerialize(player))]
               ELSE game
    /\ edits' = IF game.world # 0 /\ player.id # 0 /\ stored
                THEN [edits EXCEPT !.saved = edits.made, !.by = player]
                ELSE edits
    /\ call' = CallRec("Game.saveGame", <<0, 0>>, <<0, 0, 0, 0>>, "undefined", TRUE)
    /\ UNCHANGED <<seed, chunks, stack, genCount, halfSeen, ops, meshes, treeLog, firstGen, player, earlier>>

\* One animation frame, update(deltaTime): nothing unless the game runs with a
\* world and a player; else player.update(deltaTime), then
\* world.updateChunks(player.position.x, player.position.z), whose loops go on
\* in UpdateCreate, UpdateRun and UpdateUnload; the readouts that follow
\* change nothing
CallGameUpdate ==
    /\ Idle
    /\ ops < MaxFrames
    /\ pre' = chunks
    /\ IF ~game.isRunning \/ game.world = 0 \/ player.id = 0
       THEN /\ call' = CallRec("Game.update", <<0, 0>>, <<0, 0, 0, 0>>, "skipped", TRUE)
            /\ UNCHANGED <<player, stack, ops>>
       ELSE \E pl \in {PlayerUpdate(chunks, player)} :
               LET px == FloorBlock(pl.position[1])
                   pz == FloorBlock(pl.position[3])
               IN  /\ player' = pl
                   /\ ops' = ops + 1
                   /\ stack' = << UpdateFrame(px, pz, 1) >>
                   /\ call' = CallRec("Game.update", GetChunkKey(ChunkOf(px), ChunkOf(pz)),
                                      <<px, 0, pz, 0>>, "undefined", FALSE)
    /\ UNCHANGED <<seed, chunks, genCount, halfSeen, meshes, treeLog, firstGen, game, earlier, edits>>

\* The completed call returns to its caller
Return ==
    /\ Completed
    /\ call' = NoCall
    /\ pre' = <<>>
    /\ UNCHANGED <<seed, chunks, stack, genCount, halfSeen, ops, meshes, treeLog, firstGen, player, game, earlier, edits>>

-----------------------------------------------------------------------------

Next ==
    \/ \E w \in WorldCells, t \in EditTags : CallWorldSetBlock(w, t)
    \/ \E w \in WorldReadCells : CallWorldGetBlock(w)
    \/ \E key \in ChunkCoords : CallGetOrCreateChunk(key)
    \/ \E key \in DirectChunks, lc \in LocalCells, t \in EditTags : CallChunkSetBlock(key, lc, t)
    \/ \E key \in DirectChunks, lc \in LocalReadCells : CallChunkGetBlock(key, lc)
    \/ \E key \in DOMAIN chunks : CallGenerateMesh(key)
    \/ SetFinish
    \/ \E site \in TreeSites, th \in TrunkHeights :
          GenTree(LocalOf(site[1]) * CHUNK_SIZE + LocalOf(site[2]), th)
    \/ GenFinish
    \/ TreeCreate
    \/ TreeFinish
    \/ Return

Spec == Init /\ [][Next]_vars

\* The world as the player moves: loads and unloads, with saves and disposal
UpdateNext ==
    \/ \E p \in PlayerPositions : CallUpdateChunks(p)
    \/ UpdateCreate
    \/ UpdateRun
    \/ UpdateUnload
    \/ CallWorldDispose
    \/ \E i \in UpdatePayloadChoices : CallDeserialize(i)
    \/ \E site \in TreeSites, th \in UpdateTrunkHeights :
          GenTree(LocalOf(site[1]) * CHUNK_SIZE + LocalOf(site[2]), th)
    \/ GenFinish
    \/ TreeCreate
    \/ TreeFinish
    \/ Return

UpdateSpec == Init /\ [][UpdateNext]_vars

\* The world as the player moves, chunks leaving the map by the unload loop only
RoamNext ==
    \/ \E p \in PlayerPositions : CallUpdateChunks(p)
    \/ UpdateCreate
    \/ UpdateRun
    \/ UpdateUnload
    \/ \E site \in TreeSites, th \in UpdateTrunkHeights :
          GenTree(LocalOf(site[1]) * CHUNK_SIZE + LocalOf(site[2]), th)
    \/ GenFinish
    \/ TreeCreate
    \/ TreeFinish
    \/ Return

RoamSpec == Init /\ [][RoamNext]_vars

\* The world as the player moves about the chunks in which trees stand
NearNext ==
    \/ \E p \in NearPositions : CallUpdateChunks(p)
    \/ UpdateCreate
    \/ UpdateRun
    \/ UpdateUnload
    \/ \E site \in TreeSites, th \in UpdateTrunkHeights :
          GenTree(LocalOf(site[1]) * CHUNK_SIZE + LocalOf(site[2]), th)
    \/ GenFinish
    \/ TreeCreate
    \/ TreeFinish
    \/ Return

NearSpec == Init /\ [][NearNext]_vars

\* The world between saves, edits, mesh rebuilds and disposal
LifeNext ==
    \/ CallWorldDispose
    \/ \E i \in LifePayloadChoices : CallDeserialize(i)
    \/ \E w \in LifeCells, t \in EditTags : CallWorldSetBlock(w, t)
    \/ \E key \in LifeCoords : CallGetOrCreateChunk(key)
    \/ \E key \in DOMAIN chunks : CallGenerateMesh(key)
    \/ SetFinish
    \/ \E site \in TreeSites, th \in TrunkHeights :
          GenTree(LocalOf(site[1]) * CHUNK_SIZE + LocalOf(site[2]), th)
    \/ GenFinish
    \/ TreeCreate
    \/ TreeFinish
    \/ Return

LifeSpec == Init /\ [][LifeNext]_vars

\* The world loaded from persisted data of any shape, meshed and disposed
LoadNext ==
    \/ \E i \in PayloadChoices : CallDeserialize(i)
    \/ \E key \in DOMAIN chunks : CallGenerateMesh(key)
    \/ CallWorldDispose
    \/ Return

LoadSpec == Init /\ [][LoadNext]_vars

\* new Game(): no world, no player, the store as it was left
GameInit ==
    /\ seed = 0
    /\ chunks = <<>>
    /\ stack = <<>>
    /\ call = NoCall
    /\ pre = <<>>
    /\ genCount = <<>>
    /\ halfSeen = FALSE
    /\ ops = 0
    /\ meshes = <<>>
    /\ treeLog = <<>>
    /\ firstGen = <<>>
    /\ player = NoPlayer
    /\ game \in { NewGame(sv) : sv \in StoredSaves }
    /\ earlier = <<>>
    /\ edits = NoEdits

\* new Game() with the save of a player in the air over the arena in the store
FallInit ==
    /\ seed = 0
    /\ chunks = <<>>
    /\ stack = <<>>
    /\ call = NoCall
    /\ pre = <<>>
    /\ genCount = <<>>
    /\ halfSeen = FALSE
    /\ ops = 0
    /\ meshes = <<>>
    /\ treeLog = <<>>
    /\ firstGen = <<>>
    /\ player = NoPlayer
    /\ game \in { NewGame(SavedGame(Payloads[6], pd)) : pd \in FallSaves }
    /\ earlier = <<>>
    /\ edits = NoEdits

\* The frames of a game continued once from such a save; chunk (0,0) comes
\* from the save, so that every chunk a tree writes to is resident
FallNext ==
    \/ (game.worlds = 0 /\ game.waiting = 0 /\ CallContinueGame)
    \/ ContinueResume(FALSE, 42)
    \/ CallGameUpdate
    \/ UpdateCreate
    \/ UpdateRun
    \/ UpdateUnload
    \/ \E site \in TreeSites, th \in UpdateTrunkHeights :
          GenTree(LocalOf(site[1]) * CHUNK_SIZE + LocalOf(site[2]), th)
    \/ GenFinish
    \/ TreeFinish
    \/ Return

FallSpec == FallInit /\ [][FallNext]_vars

\* The player moving through a loaded world
MoveNext ==
    \/ \E i \in ArenaChoices : CallDeserialize(i)
    \/ \E d \in MoveSaves : CallPlayerDeserialize(d)
    \/ \E ks \in KeySets : KeyEvents(ks)
    \/ KeyF
    \/ CallPlayerUpdate
    \/ \E o \in CollisionOffsets : CallCheckCollision(o)
    \/ Return

MoveSpec == Init /\ [][MoveNext]_vars

\* The player targeting, breaking and placing blocks in a loaded world
AimNext ==
    \/ \E i \in ArenaChoices : CallDeserialize(i)
    \/ \E d \in AimSaves : CallPlayerDeserialize(d)
    \/ \E l \in DOMAIN Looks : MouseMove(l)
    \/ \E t \in {GRASS, STONE} : KeyDigit(t)
    \/ CallPlayerUpdate
    \/ CallRaycast
    \/ CallBreakBlock
    \/ CallPlaceBlock
    \/ Return

AimSpec == Init /\ [][AimNext]_vars

\* The menu of the game: new game, continue, save, and edits by the player
GameNext ==
    \/ \E now \in ClockSeeds : CallStartNewGame(now)
    \/ CallContinueGame
    \/ \E rejected \in BOOLEAN, now \in ClockSeeds : ContinueResume(rejected, now)
    \/ \E stored \in BOOLEAN : CallSaveGame(stored)
    \/ \E l \in DOMAIN Looks : MouseMove(l)
    \/ CallBreakBlock
    \/ CallPlaceBlock
    \/ Return

GameSpec == GameInit /\ [][GameNext]_vars

\* new Game() with the save of a flying player over the arena in the store
TravelInit ==
    /\ seed = 0
    /\ chunks = <<>>
    /\ stack = <<>>
    /\ call = NoCall
    /\ pre = <<>>
    /\ genCount = <<>>
    /\ halfSeen = FALSE
    /\ ops = 0
    /\ meshes = <<>>
    /\ treeLog = <<>>
    /\ firstGen = <<>>
    /\ player = NoPlayer
    /\ game = NewGame(SavedGame(Payloads[6], TravelSave))
    /\ earlier = <<>>
    /\ edits = NoEdits

\* A trip away from the arena: the game is continued, the player places
\* blocks and may fly off, the game is saved at the end of the trip and
\* continued from that save; Math.random() stays above treeChance
TravelNext ==
    \/ (game.waiting = 0 /\ (game.worlds = 0 \/ edits.by.id # 0) /\ CallContinueGame)
    \/ ContinueResume(FALSE, 42)
    \/ (ops < MaxTicks /\ KeyEvents({"backward", "sprint"}))
    \/ CallPlaceBlock
    \/ CallGameUpdate
    \/ UpdateCreate
    \/ UpdateRun
    \/ UpdateUnload
    \/ GenFinish
    \/ (ops = MaxFrames /\ CallSaveGame(TRUE))
    \/ Return

TravelSpec == TravelInit /\ [][TravelNext]_vars

\* Key and mouse events between the menu handlers of the game
InputNext ==
    \/ CallStartNewGame(42)
    \/ CallContinueGame
    \/ \E rejected \in BOOLEAN : ContinueResume(rejected, 42)
    \/ KeyF
    \/ \E t \in {GRASS, STONE} : KeyDigit(t)
    \/ \E l \in DOMAIN Looks : MouseMove(l)
    \/ CallBreakBlock
    \/ CallPlaceBlock
    \/ Return

InputSpec == GameInit /\ [][InputNext]_vars

\* Animation frames between the menu handlers of the game, Math.random()
\* staying above treeChance
TickNext ==
    \/ (game.worlds < TickWorlds /\ CallStartNewGame(42))
    \/ (game.worlds < TickWorlds /\ CallContinueGame)
    \/ \E rejected \in BOOLEAN : ContinueResume(rejected, 42)
    \/ CallSaveGame(TRUE)
    \/ (ops < MaxOps /\ CallGameUpdate)
    \/ UpdateCreate
    \/ UpdateRun
    \/ UpdateUnload
    \/ GenFinish
    \/ Return

TickSpec == GameInit /\ [][TickNext]_vars



-----------------------------------------------------------------------------
(* Properties *)

\* The local coordinates inside a chunk, as the specification states them
InChunk(x, y, z) ==
    /\ 0 <= x /\ x < 16
    /\ 0 <= y /\ y < 64
    /\ 0 <= z /\ z < 16

\* The cell an array index stands for in the layout x + 16 z + 256 y
CellOfIndex(i) == <<i % 16, i \div 256, (i \div 16) % 16>>

\* Cells at which chunk c or chunk d holds a non-zero byte; every other cell
\* of the two arrays holds 0 in both
NonZeroCells(c, d) == { CellOfIndex(i) : i \in DOMAIN c.blocks \cup DOMAIN d.blocks }

\* A completed top-level call of the given operation
Did(op) == Completed /\ call.op = op

\* C1: after chunk.setBlock(x, y, z, t) with (x, y, z) inside the chunk,
\* chunk.getBlock(x, y, z) returns t, and getBlock at every other cell inside
\* the chunk returns what it returned before the call.
C1_SetGetRoundTrip ==
    (Did("Chunk.setBlock") /\ InChunk(call.w[1], call.w[2], call.w[3])) =>
        LET c == chunks[call.key]
            c0 == pre[call.key]
        IN  /\ ChunkGetBlock(c, call.w[1], call.w[2], call.w[3]) = call.w[4]
            /\ \A o \in (NonZeroCells(c, c0) \cup LocalCells) \ { <<call.w[1], call.w[2], call.w[3]>> } :
                  InChunk(o[1], o[2], o[3]) =>
                      ChunkGetBlock(c, o[1], o[2], o[3]) = ChunkGetBlock(c0, o[1], o[2], o[3])

\* C1 witness: LEAVES has replaced the STONE the terrain put at (7, 5, 3)
C1_Witness ==
    /\ Did("Chunk.setBlock")
    /\ call.w = <<7, 5, 3, LEAVES>>
    /\ ChunkGetBlock(pre[call.key], 7, 5, 3) = STONE
    /\ ChunkGetBlock(chunks[call.key], 7, 5, 3) = LEAVES

\* C2: chunk.getBlock(x, y, z) with a coordinate outside the chunk returns
\* AIR, whatever the block array holds.
C2_GetOutOfRangeIsAir ==
    (Did("Chunk.getBlock") /\ ~InChunk(call.w[1], call.w[2], call.w[3])) =>
        call.ret = AIR

\* C2 witness: a read at x = 23 whose array index is that of a STONE cell
C2_Witness ==
    /\ Did("Chunk.getBlock")
    /\ call.w = <<23, 5, 2, 0>>
    /\ ReadBlocks(chunks[call.key], GetBlockIndex(23, 5, 2)) = STONE
    /\ call.ret = AIR

\* C3: chunk.setBlock(x, y, z, t) with a coordinate outside the chunk changes
\* nothing: the block array is as before and the dirty flag keeps the value
\* it had, so a clean chunk stays clean.
C3_SetOutOfRangeNoOp ==
    (Did("Chunk.setBlock") /\ ~InChunk(call.w[1], call.w[2], call.w[3])) =>
        /\ chunks[call.key].blocks = pre[call.key].blocks
        /\ chunks[call.key].dirty = pre[call.key].dirty
        /\ chunks = pre

\* C3 witness: an out-of-range store of LEAVES on a clean chunk, at an index
\* where the array holds STONE
C3_Witness ==
    /\ Did("Chunk.setBlock")
    /\ call.w = <<-9, 5, 4, LEAVES>>
    /\ ~pre[call.key].dirty
    /\ ~chunks[call.key].dirty
    /\ ReadBlocks(chunks[call.key], GetBlockIndex(-9, 5, 4)) = STONE

\* A completed call that stored a block in its owning chunk
Mutated ==
    \/ Did("Chunk.setBlock") /\ InChunk(call.w[1], call.w[2], call.w[3])
    \/ Did("World.setBlock") /\ 0 <= call.w[2] /\ call.w[2] < 64

\* C4: after any block mutation the owning chunk's dirty flag is true, and a
\* dirty flag that is true stays true until generateMesh runs on that chunk:
\* no step other than generateMesh on the chunk clears it.
C4_DirtyUntilMesh ==
    [][ /\ Mutated' => chunks'[call'.key].dirty
        /\ \A k \in DOMAIN chunks :
              (chunks[k].dirty /\ k \in DOMAIN chunks' /\ ~chunks'[k].dirty) =>
                  (call'.op = "Chunk.generateMesh" /\ call'.key = k) ]_vars

\* C4 witness: World.setBlock has made a clean resident chunk dirty
C4_Witness ==
    /\ Did("World.setBlock")
    /\ call.ret = TRUE
    /\ call.key \in DOMAIN pre
    /\ ~pre[call.key].dirty
    /\ chunks[call.key].dirty

\* floor(v / 16), by its defining inequality
FloorDiv16(v) == CHOOSE c \in -16 .. 16 : 16 * c <= v /\ v < 16 * c + 16

\* The chunk that owns world column (wx, wz)
OwnerOf(wx, wz) == <<FloorDiv16(wx), FloorDiv16(wz)>>

\* The neighbours across the chunk borders the world column (wx, wz) lies on
AcrossBorders(wx, wz) ==
    LET cx == FloorDiv16(wx)
        cz == FloorDiv16(wz)
    IN  { k \in { <<cx - 1, cz>>, <<cx + 1, cz>>, <<cx, cz - 1>>, <<cx, cz + 1>> } :
            \/ k = <<cx - 1, cz>> /\ wx = 16 * cx
            \/ k = <<cx + 1, cz>> /\ wx = 16 * cx + 15
            \/ k = <<cx, cz - 1>> /\ wz = 16 * cz
            \/ k = <<cx, cz + 1>> /\ wz = 16 * cz + 15 }

\* Chunks other than own that the call in progress created or turned dirty
TurnedDirty(own) ==
    { k \in DOMAIN chunks \ {own} : chunks[k].dirty /\ (k \in DOMAIN pre => ~pre[k].dirty) }

\* What C5 says of a completed World.setBlock(wx, wy, wz, t) with wy in the world
BorderDirtyExact ==
    LET own == OwnerOf(call.w[1], call.w[3])
        nbs == AcrossBorders(call.w[1], call.w[3]) \cap DOMAIN pre
    IN  /\ \A k \in nbs : chunks[k].dirty
        /\ TurnedDirty(own) \subseteq nbs
        /\ DOMAIN chunks \subseteq DOMAIN pre \cup {own}

\* C5: for a World.setBlock call, the chunks other than the owning chunk
\* whose dirty flag the call sets are exactly the resident neighbours across
\* the chunk borders the cell lies on; a write at an interior cell marks no
\* neighbour, and a non-resident neighbour is neither created nor marked.
C5_BorderDirtyExact ==
    (Did("World.setBlock") /\ 0 <= call.w[2] /\ call.w[2] < 64) => BorderDirtyExact

\* The same for calls whose owning chunk was resident when the call started
C5_ResidentOwner ==
    (Did("World.setBlock") /\ 0 <= call.w[2] /\ call.w[2] < 64
        /\ OwnerOf(call.w[1], call.w[3]) \in DOMAIN pre) => BorderDirtyExact

\* A border write with the owning chunk resident: one neighbour resident and
\* turned dirty, the other absent and left absent
C5_ResidentOwnerWitness ==
    /\ Did("World.setBlock")
    /\ call.w = <<15, 5, 0, LEAVES>>
    /\ <<0, 0>> \in DOMAIN pre
    /\ <<1, 0>> \in DOMAIN pre /\ ~pre[<<1, 0>>].dirty /\ chunks[<<1, 0>>].dirty
    /\ <<0, -1>> \notin DOMAIN chunks

\* C6: getOrCreateChunk is idempotent: terrain generation has run exactly
\* once for every resident coordinate, recursive calls from tree placement
\* included, and a call for a resident coordinate changes nothing.
C6_GenerationOnce ==
    /\ \A k \in DOMAIN chunks : GenRuns(k) = 1
    /\ (Did("World.getOrCreateChunk") /\ call.key \in DOMAIN pre) => chunks = pre

\* C6 witness: a getOrCreateChunk call during which a tree of the chunk
\* created second wrote back into the chunk created first
C6_Witness ==
    /\ Did("World.getOrCreateChunk")
    /\ halfSeen
    /\ {<<0, 0>>, <<1, 0>>} \subseteq DOMAIN chunks
    /\ GenRuns(<<0, 0>>) = 1
    /\ GenRuns(<<1, 0>>) = 1

\* C7: no chunk is observable half-initialised: no World.setBlock call issued
\* while another chunk's terrain or trees are being generated reaches a chunk
\* that is in the map and whose own generation has not completed.
C7_NoHalfInitialised == ~halfSeen

\* C8: World.getBlock for a cell whose chunk is not resident returns AIR and
\* leaves the world unchanged: no chunk is created, no terrain is generated.
C8_GetBlockNonResident ==
    (Did("World.getBlock") /\ OwnerOf(call.w[1], call.w[3]) \notin DOMAIN pre) =>
        /\ call.ret = AIR
        /\ chunks = pre

\* C8 witness: a read in chunk (0,-1), not resident, next to resident (0,0)
C8_Witness ==
    /\ Did("World.getBlock")
    /\ call.w = <<15, 5, -1, 0>>
    /\ <<0, 0>> \in DOMAIN chunks
    /\ <<0, -1>> \notin DOMAIN chunks
    /\ call.ret = AIR

\* C9: after World.setBlock(wx, wy, wz, t) with 0 <= wy < 64 the chunk
\* (floor(wx/16), floor(wz/16)) is resident, the block is held at local
\* coordinates (wx - 16 floor(wx/16), wy, wz - 16 floor(wz/16)), which lie in
\* [0, 16), and World.getBlock(wx, wy, wz) returns t; negative coordinates
\* included.
C9_FloorAddressing ==
    (Did("World.setBlock") /\ 0 <= call.w[2] /\ call.w[2] < 64) =>
        LET own == OwnerOf(call.w[1], call.w[3])
            lx  == call.w[1] - 16 * own[1]
            lz  == call.w[3] - 16 * own[2]
        IN  /\ own \in DOMAIN chunks
            /\ InChunk(lx, call.w[2], lz)
            /\ ReadBlocks(chunks[own], lx + 16 * lz + 256 * call.w[2]) = call.w[4]
            /\ WorldGetBlock(chunks, call.w[1], call.w[2], call.w[3]) = call.w[4]

\* C9 witness: a write at wz = -1 that created chunk (0,-1) and is held there
\* at local (15, 5, 15)
C9_Witness ==
    /\ Did("World.setBlock")
    /\ call.w = <<15, 5, -1, LEAVES>>
    /\ <<0, -1>> \notin DOMAIN pre
    /\ <<0, -1>> \in DOMAIN chunks
    /\ ChunkGetBlock(chunks[<<0, -1>>], 15, 5, 15) = LEAVES

\* C10: World.setBlock with wy < 0 or wy >= 64 returns false, creates no
\* chunk and changes nothing; World.getBlock with such wy returns AIR.
C10_OutOfWorldHeight ==
    /\ (Did("World.setBlock") /\ (call.w[2] < 0 \/ call.w[2] >= 64)) =>
          (call.ret = FALSE /\ chunks = pre)
    /\ (Did("World.getBlock") /\ (call.w[2] < 0 \/ call.w[2] >= 64)) =>
          call.ret = AIR

\* C10 witness: a write at wy = 64 in a chunk that is not resident
C10_Witness ==
    /\ Did("World.setBlock")
    /\ call.w[2] = 64
    /\ OwnerOf(call.w[1], call.w[3]) \notin DOMAIN chunks
    /\ call.ret = FALSE

-----------------------------------------------------------------------------
(* Render window *)

\* The square of chunk coordinates within RENDER_DISTANCE of the chunk that
\* holds world column (px, pz)
WindowAround(px, pz) ==
    { <<cx, cz>> : cx \in FloorDiv16(px) - RENDER_DISTANCE .. FloorDiv16(px) + RENDER_DISTANCE,
                   cz \in FloorDiv16(pz) - RENDER_DISTANCE .. FloorDiv16(pz) + RENDER_DISTANCE }

\* C11: when updateChunks(px, pz) has completed, the resident chunks are exactly
\* the (2 * RENDER_DISTANCE + 1)^2 coordinates of the square centred on the
\* chunk (floor(px / 16), floor(pz / 16)), whatever was resident before and
\* whatever chunks the call created as a side effect
C11_ResidentWindow ==
    Did("World.updateChunks") =>
        /\ DOMAIN chunks = WindowAround(call.w[1], call.w[3])
        /\ Cardinality(DOMAIN chunks) = (2 * RENDER_DISTANCE + 1) * (2 * RENDER_DISTANCE + 1)

\* updateChunks has completed where chunks outside the new window were resident
\* before, chunk (0, 0) of the window was not, and the tree placed while it was
\* generated made getOrCreateChunk create chunk (1, 0) outside the window
C11_Witness ==
    /\ Did("World.updateChunks")
    /\ DOMAIN pre \ WindowAround(call.w[1], call.w[3]) # {}
    /\ <<0, 0>> \in WindowAround(call.w[1], call.w[3]) \ DOMAIN pre
    /\ <<1, 0>> \notin WindowAround(call.w[1], call.w[3]) \cup DOMAIN pre
    /\ <<seed, 16, 8>> \in DOMAIN treeLog

-----------------------------------------------------------------------------
(* Meshes and the scene *)

\* The meshes that are in the scene
InScene == { m \in DOMAIN meshes : meshes[m].inScene }

\* C12: no chunk that is absent from the map has a mesh in the scene: a chunk
\* that leaves the map (unload in updateChunks, World.deserialize,
\* World.dispose) has had its mesh removed from the scene and released
C12_DisposeBeforeRemoval ==
    \A m \in InScene : m[1] \in DOMAIN chunks

\* updateChunks has unloaded a chunk that had a mesh in the scene when the call
\* began, and the mesh has been released
C12_Witness ==
    /\ Did("World.updateChunks")
    /\ \E m \in DOMAIN meshes :
          /\ m[1] \in DOMAIN pre \ DOMAIN chunks
          /\ pre[m[1]].mesh = m[2]
          /\ ~meshes[m].inScene
          /\ meshes[m].released = 1

\* The meshes of chunk key that are in the scene
InSceneOf(key) == { m \in InScene : m[1] = key }

\* C13: each mesh is released exactly once and a chunk never has more than one
\* mesh in the scene, over any sequence of edits, generateMesh calls (rebuilds
\* that produce no face included) and dispose calls: no mesh is removed or
\* disposed a second time
C13_ReleasedOnce ==
    /\ \A m \in DOMAIN meshes : meshes[m].released <= 1
    /\ \A m \in DOMAIN meshes : meshes[m].inScene => meshes[m].released = 0
    /\ \A key \in DOMAIN chunks : Cardinality(InSceneOf(key)) <= 1

\* C14: after generateMesh has run on a dirty chunk its dirty flag is false,
\* also when the rebuild emits no face (an all-air chunk)
C14_MeshClearsDirty ==
    (Did("Chunk.generateMesh") /\ pre[call.key].dirty) => ~chunks[call.key].dirty

\* generateMesh has run on a dirty chunk that holds no block: no face was emitted
C14_Witness ==
    /\ Did("Chunk.generateMesh")
    /\ pre[call.key].dirty
    /\ chunks[call.key].len = BlocksLength
    /\ DOMAIN chunks[call.key].blocks = {}
    /\ InSceneOf(call.key) = {}

\* C15: generateMesh on a chunk whose dirty flag is false changes nothing: the
\* chunk keeps its mesh, no mesh is released, added or removed from the scene,
\* and the dirty flag stays false
C15_CleanMeshNoOp ==
    [][\A key \in DOMAIN chunks :
          (CallGenerateMesh(key) /\ ~chunks[key].dirty) =>
              /\ chunks' = chunks
              /\ meshes' = meshes]_vars

\* generateMesh has run on a clean chunk whose mesh is in the scene
C15_Witness ==
    /\ Did("Chunk.generateMesh")
    /\ ~pre[call.key].dirty
    /\ pre[call.key].mesh # NoMesh
    /\ <<call.key, pre[call.key].mesh>> \in InScene

-----------------------------------------------------------------------------
(* Mesh contents *)

\* The block at world cell (wx, y, wz) of chunk map ch: Air outside the world
\* height and in a chunk that is not resident
BlockAt(ch, wx, y, wz) ==
    IF y < 0 \/ y > CHUNK_HEIGHT - 1 \/ OwnerOf(wx, wz) \notin DOMAIN ch THEN AIR
    ELSE LET own == OwnerOf(wx, wz)
             i == (wx - 16 * own[1]) + 16 * (wz - 16 * own[2]) + 256 * y
         IN  IF i \in DOMAIN ch[own].blocks THEN ch[own].blocks[i] ELSE AIR

\* The directions in which the neighbour of local cell c of chunk key is Air
OpenDirs(ch, key, c) ==
    { d \in FaceDirs : BlockAt(ch, 16 * key[1] + c[1] + d[1], c[2] + d[2],
                                   16 * key[2] + c[3] + d[3]) = AIR }

\* The pairs of a non-air block of chunk key and a direction whose neighbour is Air
ExposedFaces(ch, key) ==
    UNION { { <<c[1], c[2], c[3], d>> : d \in OpenDirs(ch, key, c) } :
            c \in { CellOfIndex(i) : i \in DOMAIN ch[key].blocks } }

\* The quads of mesh m at local cell c
QuadsAt(m, c) == { f \in meshes[m].faces : <<f[1], f[2], f[3]>> = c }

-----------------------------------------------------------------------------
(* Persistence *)

\* C17: world.deserialize(world.serialize()) yields a world with the same seed,
\* the same resident chunk coordinates and, for every chunk, a block array of
\* the same length with the same entries
C17_SerializeRoundTrip ==
    [][CallDeserialize(0) =>
          /\ seed' = seed
          /\ DOMAIN chunks' = DOMAIN chunks
          /\ \A k \in DOMAIN chunks :
                /\ chunks'[k].len = chunks[k].len
                /\ \A i \in DOMAIN chunks[k].blocks \cup DOMAIN chunks'[k].blocks :
                      ReadBlocks(chunks'[k], i) = ReadBlocks(chunks[k], i)]_vars

\* The world's own save has been loaded into a world of two generated chunks
\* with a tree and a mesh
C17_Witness ==
    /\ Did("World.deserialize")
    /\ call.w[1] = 0
    /\ DOMAIN pre = { <<0, 0>>, <<1, 0>> }
    /\ BlockAt(pre, 16, ColumnHeight(seed, <<1, 0>>, 8), 8) = WOOD
    /\ \E k \in DOMAIN pre : pre[k].mesh # NoMesh
    /\ BlockAt(chunks, 16, ColumnHeight(seed, <<1, 0>>, 8), 8) = WOOD

\* The data of the completed world.deserialize call
LoadedData == IF call.w[1] = 0 THEN WorldSerialize(seed, pre) ELSE Payloads[call.w[1]]

\* The entries of data d for chunk coordinate k
EntriesFor(d, k) == { n \in DOMAIN d.chunks : <<d.chunks[n].chunkX, d.chunks[n].chunkZ>> = k }

\* C18: after world.deserialize(data) the resident chunks are exactly the
\* coordinates listed in data.chunks; every chunk resident before has been
\* disposed and removed, every restored chunk is dirty, has no mesh and holds
\* exactly the persisted blocks, and terrain generation has not run for it
C18_DeserializeInstalls ==
    Did("World.deserialize") =>
        /\ DOMAIN chunks = { <<LoadedData.chunks[n].chunkX, LoadedData.chunks[n].chunkZ>> :
                               n \in DOMAIN LoadedData.chunks }
        /\ \A m \in DOMAIN meshes : m[1] \in DOMAIN pre => ~meshes[m].inScene
        /\ \A k \in DOMAIN chunks :
              /\ chunks[k].dirty
              /\ chunks[k].mesh = NoMesh
              /\ GenRuns(k) = 0
              /\ \E n \in EntriesFor(LoadedData, k) :
                    /\ chunks[k].len = LoadedData.chunks[n].len
                    /\ \A i \in DOMAIN chunks[k].blocks \cup DOMAIN LoadedData.chunks[n].blocks :
                          ReadBlocks(chunks[k], i) =
                              (IF i \in DOMAIN LoadedData.chunks[n].blocks
                               THEN LoadedData.chunks[n].blocks[i] ELSE AIR)

\* The save with the single block has been loaded into a world of two chunks
\* that held blocks and had their meshes in the scene: chunk (1, 0) is gone and
\* chunk (0, 0) holds the one persisted block
C18_Witness ==
    /\ Did("World.deserialize")
    /\ call.w[1] = 1
    /\ DOMAIN pre = { <<0, 0>>, <<1, 0>> }
    /\ \A k \in DOMAIN pre : pre[k].mesh # NoMesh /\ DOMAIN pre[k].blocks # {}
    /\ DOMAIN chunks = { <<0, 0>> }
    /\ DOMAIN chunks[<<0, 0>>].blocks = { IndexOf(<<7, 5, 3>>) }

\* Whether data d is malformed: no chunk list, a chunk without a block array,
\* or a block array whose length is not 16 * 16 * 64
Malformed(d) ==
    \/ ~d.hasChunks
    \/ \E n \in DOMAIN d.chunks :
          ~d.chunks[n].hasBlocks \/ d.chunks[n].len # CHUNK_SIZE * CHUNK_SIZE * CHUNK_HEIGHT

\* C19: world.deserialize on malformed data (no chunk list, a chunk without a
\* block array, a block array of the wrong length) fails with an error and
\* installs no chunk built from the data
C19_MalformedRejected ==
    (Did("World.deserialize") /\ Malformed(LoadedData)) =>
        /\ call.ret # "undefined"
        /\ \A k \in DOMAIN chunks : EntriesFor(LoadedData, k) = {}

-----------------------------------------------------------------------------
(* Terrain *)

\* C20: terrain generation is a function of the seed and the column: a column
\* generated again with the same seed gets the same tree, or again none, with
\* the same trunk height
C20_TreesRepeat ==
    [][\A e \in DOMAIN treeLog : treeLog'[e] = treeLog[e]]_vars

\* The generation of chunk k returns in this step: generateChunkTerrain leaves
\* its last column, or the load loops of updateChunks create the chunk and go on
GenerationReturns(k) ==
    /\ stack # <<>>
    /\ \/ Top.op = "gen" /\ Top.key = k /\ Len(stack') < Len(stack)
       \/ /\ Top.op = "update"
          /\ k \notin DOMAIN chunks
          /\ stack' # <<>>
          /\ stack'[Len(stack')].op = "update"

\* C21: a chunk coordinate that has left the map by the unload loop of
\* updateChunks and is generated again with the same seed gets a block array
\* identical to the one it had right after its first generation
C21_RegenerationSame ==
    [][\A k \in DOMAIN chunks' :
          (<<seed, k>> \in DOMAIN firstGen /\ GenerationReturns(k))
          => chunks'[k].blocks = firstGen[<<seed, k>>]]_vars

\* The block at level y of column col (x outer, z inner) of block array b
CellIn(b, col, y) ==
    LET i == (col \div 16) + 16 * (col % 16) + 256 * y
    IN  IF i \in DOMAIN b THEN b[i] ELSE AIR

\* The columns of block array b that hold a block of a tree
TreeCols(b) ==
    { 16 * (i % 16) + ((i \div 16) % 16) : i \in { j \in DOMAIN b : b[j] \in {WOOD, LEAVES} } }

\* The columns of chunk key, generated with seed s into block array b, that
\* hold no block of a tree and are not Air throughout at height 0
FilledCols(s, key, b) ==
    ({ col \in 0 .. LastCol : ColumnHeight(s, key, col) > 0 }
        \cup { 16 * (i % 16) + ((i \div 16) % 16) : i \in DOMAIN b }) \ TreeCols(b)

\* The column (7, 3) of chunk (0, 0), of height 20 with seed 42
TallCol == 7 * 16 + 3

\* The column (7, 4) of chunk (0, 0), of height 3 with seed 42
LowCol == 7 * 16 + 4

\* C22: a column of computed height h that holds no block of a tree is left by
\* generateChunkTerrain with Grass at h-1, Dirt at h-4 .. h-2 (as far as it is
\* not below 0), Stone at 0 .. h-5 and Air at every level from h up; for h = 20
\* that is Stone at 0..15, Dirt at 16..18, Grass at 19 and Air from 20 up
C22_ColumnFill ==
    [][\A k \in DOMAIN chunks' :
          GenerationReturns(k) =>
              \A col \in FilledCols(seed, k, chunks'[k].blocks) :
                  LET h == ColumnHeight(seed, k, col)
                  IN  \A y \in 0 .. CHUNK_HEIGHT - 1 :
                          CellIn(chunks'[k].blocks, col, y) =
                              (IF y >= h THEN AIR
                               ELSE IF y = h - 1 THEN GRASS
                               ELSE IF y >= h - 4 THEN DIRT
                               ELSE STONE)]_vars

\* Chunk (0, 0) has been generated with a tree; its column (7, 3) of height 20
\* holds Stone up to 15, Dirt at 16..18, Grass at 19 and Air above
C22_Witness ==
    /\ <<42, <<0, 0>>>> \in DOMAIN firstGen
    /\ TreeCols(firstGen[<<42, <<0, 0>>>>]) # {}
    /\ TallCol \notin TreeCols(firstGen[<<42, <<0, 0>>>>])
    /\ ColumnHeight(42, <<0, 0>>, TallCol) = 20
    /\ \A y \in 0 .. 15 : CellIn(firstGen[<<42, <<0, 0>>>>], TallCol, y) = STONE
    /\ \A y \in 16 .. 18 : CellIn(firstGen[<<42, <<0, 0>>>>], TallCol, y) = DIRT
    /\ CellIn(firstGen[<<42, <<0, 0>>>>], TallCol, 19) = GRASS
    /\ \A y \in 20 .. 63 : CellIn(firstGen[<<42, <<0, 0>>>>], TallCol, y) = AIR

\* C23 as stated: in a generated column of height h >= 5 the four cells below
\* the Grass cell (h-5 .. h-2) are Dirt and every cell below them is Stone; for
\* h < 5 every cell below the Grass cell is Dirt
C23_FourDirt ==
    [][\A k \in DOMAIN chunks' :
          GenerationReturns(k) =>
              \A col \in FilledCols(seed, k, chunks'[k].blocks) :
                  LET h == ColumnHeight(seed, k, col)
                  IN  \A y \in 0 .. h - 2 :
                          CellIn(chunks'[k].blocks, col, y) =
                              (IF h < 5 \/ y >= h - 5 THEN DIRT ELSE STONE)]_vars

\* C23, amended: in a generated column of height h >= 4 the three cells below
\* the Grass cell (h-4 .. h-2) are Dirt and every cell below them is Stone; for
\* h < 4 every cell below the Grass cell is Dirt
C23_ThreeDirt ==
    [][\A k \in DOMAIN chunks' :
          GenerationReturns(k) =>
              \A col \in FilledCols(seed, k, chunks'[k].blocks) :
                  LET h == ColumnHeight(seed, k, col)
                  IN  \A y \in 0 .. h - 2 :
                          CellIn(chunks'[k].blocks, col, y) =
                              (IF h < 4 \/ y >= h - 4 THEN DIRT ELSE STONE)]_vars

\* Chunk (0, 0) has been generated: below the Grass of its column (7, 3) of
\* height 20 lie three cells of Dirt and then Stone, and its column (7, 4) of
\* height 3 holds Dirt below the Grass
C23_Witness ==
    /\ <<42, <<0, 0>>>> \in DOMAIN firstGen
    /\ ColumnHeight(42, <<0, 0>>, TallCol) = 20
    /\ CellIn(firstGen[<<42, <<0, 0>>>>], TallCol, 19) = GRASS
    /\ CellIn(firstGen[<<42, <<0, 0>>>>], TallCol, 16) = DIRT
    /\ CellIn(firstGen[<<42, <<0, 0>>>>], TallCol, 15) = STONE
    /\ ColumnHeight(42, <<0, 0>>, LowCol) = 3
    /\ CellIn(firstGen[<<42, <<0, 0>>>>], LowCol, 2) = GRASS
    /\ CellIn(firstGen[<<42, <<0, 0>>>>], LowCol, 1) = DIRT
    /\ CellIn(firstGen[<<42, <<0, 0>>>>], LowCol, 0) = DIRT


\* The body box of a player at p: <<low corner, high corner>>
BodyBox(p) ==
    << <<p[1] - PLAYER_radius, p[2], p[3] - PLAYER_radius>>,
       <<p[1] + PLAYER_radius, p[2] + PLAYER_height, p[3] + PLAYER_radius>> >>

\* The cells whose unit cube has a point in common with box b, and those whose
\* unit cube overlaps it in more than a face, an edge or a corner
CellsNear(b) ==
    { <<x, y, z>> : x \in FloorBlock(b[1][1]) - 1 .. CeilBlock(b[2][1]) + 1,
                    y \in FloorBlock(b[1][2]) - 1 .. CeilBlock(b[2][2]) + 1,
                    z \in FloorBlock(b[1][3]) - 1 .. CeilBlock(b[2][3]) + 1 }
Touching(b) ==
    { c \in CellsNear(b) : \A i \in 1 .. 3 : c[i] * UNIT <= b[2][i] /\ (c[i] + 1) * UNIT >= b[1][i] }
Overlapping(b) ==
    { c \in CellsNear(b) : \A i \in 1 .. 3 : c[i] * UNIT < b[2][i] /\ (c[i] + 1) * UNIT > b[1][i] }

SolidIn(ch, cells) == \E c \in cells : WorldGetBlock(ch, c[1], c[2], c[3]) # AIR

\* C24: checkCollision(offset) reports blocked exactly when a cell whose unit
\* cube intersects the body box at position + offset is non-air: blocked only
\* if some cell with a point in common with the box is non-air, and blocked
\* whenever some cell overlapping the box is non-air.
C24_BlockedIffIntersects ==
    call.op = "Player.checkCollision" =>
        LET b == BodyBox(Plus(player.position, <<call.w[1], call.w[2], call.w[3]>>))
        IN  /\ call.ret => SolidIn(chunks, Touching(b))
            /\ SolidIn(chunks, Overlapping(b)) => call.ret


\* A step in which player.update(deltaTime) runs
UpdateStep == call.op = "none" /\ call'.op = "Player.update"

\* A step in which game.update(deltaTime) passes its running check and updates the player
FrameStep == call.op = "none" /\ call'.op = "Game.update" /\ call'.ret # "skipped"

\* C25: a tick resolves its movement axis by axis: the X sub-move is tested at
\* the position the tick started from, the Z sub-move at the position after
\* the X step and the Y sub-move at the position after both; each is applied
\* if and only if checkCollision reports it free, whatever became of the others
\* (the floor at 0 then bounds y from below).
C25_AxisByAxis ==
    [][UpdateStep =>
         LET m == MoveVector(chunks, player)
             p0 == player.position
             x1 == IF ~CheckCollision(chunks, p0, <<m[1], 0, 0>>) THEN p0[1] + m[1] ELSE p0[1]
             z1 == IF ~CheckCollision(chunks, <<x1, p0[2], p0[3]>>, <<0, 0, m[3]>>)
                   THEN p0[3] + m[3] ELSE p0[3]
             y1 == IF ~CheckCollision(chunks, <<x1, p0[2], z1>>, <<0, m[2], 0>>)
                   THEN p0[2] + m[2] ELSE p0[2]
         IN  player'.position = <<x1, IF y1 < 0 THEN 0 ELSE y1, z1>>]_vars

\* The player saved 2/64 above the floor at x = z = 8.5 has been updated with
\* the forward key held, heading toward +x and +z: the X sub-move was blocked by
\* the wall and x is as saved, the Z sub-move was applied
C25_Witness ==
    /\ call.op = "Player.update"
    /\ player.keys = {"forward"}
    /\ player.camera.look = 4
    /\ player.position = <<8 * UNIT + Half, UNIT + 2 * Tick64, 8 * UNIT + Half + 16 * Tick64>>


\* C26: in a tick of a player who is not flying the vertical velocity is
\* lowered by gravity * dt; the player is grounded iff the probe 0.1 below is
\* blocked; when grounded a negative velocity is reset to 0 and a held jump key
\* sets it to jumpForce; when not grounded the jump key has no effect.  In a
\* tick of a flying player the grounded flag stays and gravity leaves the
\* velocity alone.  (After that a blocked downward move or the floor at 0 may
\* set the velocity to 0.)
C26_GravityAndGround ==
    [][UpdateStep =>
         IF player.isFlying
         THEN /\ player'.isGrounded = player.isGrounded
              /\ player'.vy \in {player.vy, 0}
         ELSE LET fallen == player.vy - (PLAYER_gravity * VUNIT) \div FramesPerSecond
                  probe == CheckCollision(chunks, player.position, <<0, -(UNIT \div 10), 0>>)
                  vy == IF ~probe THEN fallen
                        ELSE IF "jump" \in player.keys THEN PLAYER_jumpForce * VUNIT
                        ELSE IF fallen < 0 THEN 0 ELSE fallen
              IN  /\ player'.isGrounded = probe
                  /\ player'.vy \in {vy, 0}
                  /\ player'.vy = 0 /\ vy # 0 => player'.position[2] = 0 \/ vy < 0]_vars

\* A player who jumped from the ground in one tick has been updated again in
\* the air with the jump key still held: not grounded, and the velocity is
\* jumpForce less one step of gravity
C26_Witness ==
    /\ call.op = "Player.update"
    /\ "jump" \in player.keys
    /\ ~player.isFlying
    /\ ~player.isGrounded
    /\ player.vy = JumpVelocity - GravityStep


\* C27: after every player.update the y coordinate is at least 0, and a tick
\* whose sub-moves end below 0 leaves the player at y = 0 with vertical
\* velocity 0.
C27_FloorClamp ==
    [][UpdateStep =>
         /\ player'.position[2] >= 0
         /\ Sweep(chunks, player.position, MoveVector(chunks, player)).position[2] < 0
               => player'.position[2] = 0 /\ player'.vy = 0]_vars

\* The player saved beside the arena, with nothing below, has fallen: the tick
\* ended in the air at y = 0 with velocity 0
C27_Witness ==
    /\ call.op = "Player.update"
    /\ ~player.isFlying
    /\ ~player.isGrounded
    /\ player.position = <<2 * UNIT + Half, 0, 2 * UNIT + Half>>
    /\ player.vy = 0


Abs(n) == IF n < 0 THEN -n ELSE n

\* Cells that share a face
FaceAdjacent(a, b) == Abs(a[1] - b[1]) + Abs(a[2] - b[2]) + Abs(a[3] - b[3]) = 1

\* The square of the distance from point o to the centre of cell c
CentreDistance2(o, c) ==
    LET d(i) == c[i] * UNIT + UNIT \div 2 - o[i]
    IN  d(1) * d(1) + d(2) * d(2) + d(3) * d(3)

\* C28: raycast samples the view ray every 0.1 up to the reach; it reports as
\* hit the first sampled cell that is not Air, and hit = false when there is
\* none; the placement anchor it returns with a hit is an Air cell that shares
\* a face with the hit cell and lies nearer the origin than the hit cell.
C28_RaycastAnchor ==
    call.op = "Player.raycast" =>
        LET o == player.camera.position
            d == Looks[player.camera.look].dir
            solid == { k \in 0 .. RaySteps :
                         LET c == SampleCell(o, d, k)
                         IN  WorldGetBlock(chunks, c[1], c[2], c[3]) # AIR }
            r == call.ret
        IN  IF solid = {} THEN ~r.hit
            ELSE /\ r.hit
                 /\ r.position = SampleCell(o, d, CHOOSE k \in solid : \A k2 \in solid : k <= k2)
                 /\ r.placePosition # NoCell =>
                       /\ WorldGetBlock(chunks, r.placePosition[1], r.placePosition[2],
                                        r.placePosition[3]) = AIR
                       /\ FaceAdjacent(r.placePosition, r.position)
                       /\ CentreDistance2(o, r.placePosition) < CentreDistance2(o, r.position)


\* What raycast() returned inside the breakBlock / placeBlock call that has
\* just completed: the call leaves the player as it was
RayOfCall == PlayerRaycast(pre, player)

\* C29: placeBlock stores the selected block at the placement anchor if the
\* raycast hit, there is an anchor and the anchor cell does not intersect the
\* player's box (has no point in common with it); it leaves the world as it
\* was and reports nothing if there is no hit, no anchor, or the anchor cell
\* overlaps the box.  breakBlock sets the hit cell to Air, and changes nothing
\* when there is no hit.
C29_PlaceAndBreak ==
    /\ call.op = "Player.placeBlock" /\ call.done =>
          LET r == RayOfCall
              box == BodyBox(player.position)
          IN  /\ r.hit /\ r.placePosition # NoCell /\ r.placePosition \notin Touching(box)
                    /\ ~YOutOfWorld(r.placePosition[2])
                 => WorldGetBlock(chunks, r.placePosition[1], r.placePosition[2],
                                  r.placePosition[3]) = player.selectedBlock
              /\ ~r.hit \/ r.placePosition = NoCell \/ r.placePosition \in Overlapping(box)
                 => chunks = pre /\ call.ret = "undefined"
    /\ call.op = "Player.breakBlock" /\ call.done =>
          LET r == RayOfCall
          IN  IF r.hit
              THEN chunks = SetBlockResident(pre, r.position[1], r.position[2], r.position[3], AIR)
              ELSE chunks = pre


\* A step in which loadWorld() settles and continueGame() runs to its end
ResumeStep == call.op = "none" /\ call'.op = "Game.continueGame"

\* C30: when loading fails (loadWorld() rejects, the store holds no save, or
\* deserializing the world or the player throws) continueGame ends with
\* isRunning set, a world made after the one the save was loaded into, with
\* the seed of the clock and no chunk resident, and a new player bound to it.
C30_ContinueFallsBack ==
    [][ResumeStep /\ (\/ call'.ret = "rejected"
                      \/ ~game.stored.present
                      \/ DeserializeThrows(game.stored.world)
                      \/ PlayerDeserializeThrows(game.stored.player))
         => /\ game'.isRunning
            /\ game'.world = game'.worlds
            /\ game'.world > game.worlds
            /\ call'.ret = "resolved" /\ game.stored.present => game'.world > game.worlds + 1
            /\ seed' = call'.w[1]
            /\ chunks' = <<>>
            /\ player'.id = game'.players
            /\ player'.id > game.players
            /\ player'.world = game'.world]_vars

\* continueGame has ended after loading the two chunks of a save whose player
\* has no position: the game runs in the second world made by the call
C30_Witness ==
    /\ call.op = "Game.continueGame"
    /\ call.ret = "resolved"
    /\ game.stored = SavedGame(Payloads[2], NoPosition)
    /\ game.isRunning
    /\ game.world = 2
    /\ player.world = 2
    /\ chunks = <<>>


-----------------------------------------------------------------------------
(* Frame effects of chunk creation *)

\* C35: a World.getOrCreateChunk(cx, cz) call on a coordinate that is not
\* resident adds exactly the entry (cx, cz) to the chunk map and changes no
\* block and no dirty flag of any chunk that was resident when it started.
C35_CreateAffectsOneChunk ==
    (Did("World.getOrCreateChunk") /\ call.key \notin DOMAIN pre) =>
        /\ DOMAIN chunks = DOMAIN pre \cup {call.key}
        /\ \A k \in DOMAIN pre :
              /\ chunks[k].blocks = pre[k].blocks
              /\ chunks[k].dirty = pre[k].dirty


-----------------------------------------------------------------------------
(* Meshes and the world *)

\* The quads of chunk key that are in the scene
FacesInScene(key) == UNION { meshes[m].faces : m \in InSceneOf(key) }

\* C34: whenever no call is in progress, for every resident chunk with
\* dirty = false the quads of its mesh in the scene are exactly the pairs of a
\* non-air block of the chunk and a direction whose neighbouring cell is Air
\* according to World.getBlock on the world as it is, across chunk borders too.
C34_CleanMeshCurrent ==
    stack = <<>> =>
        \A k \in DOMAIN chunks :
            ~chunks[k].dirty => FacesInScene(k) = ExposedFaces(chunks, k)


\* C33: when World.updateChunks has returned, every resident chunk has
\* dirty = false.
C33_AllCleanAfterUpdate ==
    (Did("World.updateChunks") /\ call.ret = "undefined") =>
        \A k \in DOMAIN chunks : ~chunks[k].dirty


-----------------------------------------------------------------------------
(* Shape of the block grid *)

\* C40: in every reachable state every resident chunk's block array has
\* exactly 16 * 16 * 64 entries and every entry is one of the six block tags.
C40_GridShape ==
    \A k \in DOMAIN chunks :
        /\ chunks[k].len = 16 * 16 * 64
        /\ \A i \in DOMAIN chunks[k].blocks :
              /\ 0 <= i /\ i < 16 * 16 * 64
              /\ chunks[k].blocks[i] \in {AIR, GRASS, DIRT, STONE, WOOD, LEAVES}


-----------------------------------------------------------------------------
(* Placement *)

\* The world cell held at index i of the block array of chunk k
WorldCellOf(k, i) == <<16 * k[1] + (i % 16), i \div 256, 16 * k[2] + ((i \div 16) % 16)>>

\* The world cells at which chunk maps a and b hold different blocks
ChangedCells(a, b) ==
    LET held(m, k) == IF k \in DOMAIN m THEN DOMAIN m[k].blocks ELSE {}
        cells == UNION { { WorldCellOf(k, i) : i \in held(a, k) \cup held(b, k) } :
                         k \in DOMAIN a \cup DOMAIN b }
    IN  { c \in cells : BlockAt(a, c[1], c[2], c[3]) # BlockAt(b, c[1], c[2], c[3]) }

\* C37: every cell placeBlock has written was Air before the call, and if
\* checkCollision at zero offset reported free before the call it reports free
\* after it.
C37_PlaceKeepsFree ==
    (call.op = "Player.placeBlock" /\ call.done) =>
        /\ \A c \in ChangedCells(pre, chunks) : BlockAt(pre, c[1], c[2], c[3]) = AIR
        /\ ~CheckCollision(pre, player.position, <<0, 0, 0>>)
              => ~CheckCollision(chunks, player.position, <<0, 0, 0>>)

\* placeBlock has written the selected block into a cell of a world in which
\* the player's body was free, next to the player or elsewhere
C37_Witness ==
    /\ call.op = "Player.placeBlock"
    /\ call.done
    /\ ChangedCells(pre, chunks) = { <<call.w[1], call.w[2], call.w[3]>> }
    /\ BlockAt(chunks, call.w[1], call.w[2], call.w[3]) = player.selectedBlock
    /\ ~CheckCollision(pre, player.position, <<0, 0, 0>>)


-----------------------------------------------------------------------------
(* Spawn *)

\* A step in which startNewGame() runs from the menu
NewGameStep == call.op = "none" /\ call'.op = "Game.startNewGame"

\* C32: startNewGame leaves the player at x = z = 0, 2 above the topmost
\* non-air block of column (0, 0) of the terrain generated for the new world's
\* seed (a column of height h has its topmost block at h - 1), and at 50 only
\* when that column is Air throughout.
C32_SpawnOnTerrain ==
    [][NewGameStep =>
         LET h == Height(seed', 0, 0)
         IN  player'.position = <<0, (IF h = 0 THEN 50 ELSE h - 1 + 2) * UNIT, 0>>]_vars

\* C36: player.update never moves the body into solid blocks: if
\* checkCollision with a zero offset is false before the update, and the world
\* does not change, it is false after the update, whatever the keys, the
\* flying flag, the velocity and the time step, floor-clamp ticks included.
C36_UpdateKeepsFree ==
    [][(UpdateStep \/ FrameStep) =>
          (~CheckCollision(chunks, player.position, <<0, 0, 0>>)
              => ~CheckCollision(chunks, player'.position, <<0, 0, 0>>))]_vars

\* C39: every game.update that passes the running check sees a player whose
\* world is the world the game holds, and that world has not been disposed,
\* however the frames interleave with startNewGame, continueGame and saveGame.
C39_FrameSeesCurrentWorld ==
    (call.op = "Game.update" /\ call.ret # "skipped") =>
        /\ player.world = game.world
        /\ game.world \notin game.disposed

\* C39 witness: a frame of the game started by the fallback of a continueGame
\* whose load failed after it had replaced the world of a running game
C39_Witness ==
    /\ call.op = "Game.update"
    /\ call.ret # "skipped"
    /\ game.world = 3
    /\ player.id = 2
    /\ game.disposed = {1, 2}

\* C38: only the Player the game currently holds reacts to input: a player of
\* an earlier game no longer toggles flying, changes its selected block, or
\* breaks or places blocks.
C38_EarlierPlayersIgnoreInput ==
    [][\A i \in DOMAIN earlier : earlier'[i] = earlier[i]]_vars

\* A step in which continueGame() loads the world and the player from the
\* save this game wrote
RestoreStep ==
    /\ call.op = "none"
    /\ call'.op = "Game.continueGame"
    /\ edits.by.id # 0
    /\ game'.worlds = game.worlds + 1
    /\ player'.id = player.id + 1

\* C31: after saveGame() followed by continueGame(), every block the player
\* placed or broke before the save reads back as edited, wherever it is and
\* whether or not its chunk was still kept at save time, and the player's
\* position, pitch, yaw, selected block and flying flag are those at the save.
C31_SaveContinueRestores ==
    [][RestoreStep =>
          /\ \A c \in DOMAIN edits.saved :
                WorldGetBlock(chunks', c[1], c[2], c[3]) = edits.saved[c]
          /\ player'.position = edits.by.position
          /\ player'.look = edits.by.look
          /\ player'.selectedBlock = edits.by.selectedBlock
          /\ player'.isFlying = edits.by.isFlying]_vars
====
